---- MODULE Spec2Model ----
(***************************************************************************)
(* A model of the comment-triggered benchmark dispatcher                   *)
(* (scripts/scrape_comments.py).  Comment bodies, URLs, file names and     *)
(* file contents are strings, handled character by character as the       *)
(* Python code handles them.  The GitHub API, the jobs/ directory and the  *)
(* external worker are the environment.                                    *)
(***************************************************************************)
EXTENDS Integers, Sequences, FiniteSets, TLC

(***************************************************************************)
(* Program constants (scrape_comments.py:40-88).                           *)
(***************************************************************************)
ALLOWED_USERS ==
  {"alamb", "Dandandan", "adriangb", "rluvaton", "geoffreyclaude",
   "xudong963", "zhuqi-lucas", "Omega359"}

ALLOWED_BENCHMARKS_DF ==
  {"tpch", "tpch10", "tpch_mem", "tpch_mem10", "clickbench_partitioned",
   "clickbench_extended", "clickbench_1", "clickbench_pushdown"}

ALLOWED_CRITERION_BENCHMARKS_DF ==
  {"sql_planner", "in_list", "case_when", "aggregate_vectorized",
   "aggregate_query_sql"}

ALLOWED_CRITERION_BENCHMARKS_ARROW ==
  {"arrow_reader", "arrow_reader_clickbench", "arrow_reader_row_filter",
   "arrow_statistics", "arrow_writer", "array_iter", "coalesce_kernels",
   "take_kernels", "interleave_kernels", "union_array", "variant_builder",
   "variant_kernels", "variant_validation", "filter_kernels",
   "concatenate_kernels"}

DEFAULT_REPOS == "apache/datafusion:apache/arrow-rs"

PER_PAGE == 100

\* (a TLA+ string cannot hold a backquote: the model writes ' for it, and
\* leaves out the robot emoji that opens every reply)
SCRIPT_MARKDOWN_LINK ==
  "['scrape_comments.py'](https://github.com/alamb/datafusion-benchmarking/blob/main/scripts/scrape_comments.py)"

(***************************************************************************)
(* Bounds of the model.                                                    *)
(***************************************************************************)
\* dispatcher invocations started in one behaviour
MaxRuns == 2
\* API calls that may fail (transport failure or garbage) in one behaviour
MaxFaults == 1

(***************************************************************************)
(* Python string primitives.                                               *)
(***************************************************************************)
\* the slice s[i-1:j] of Python: the characters at positions i..j (from 1)
\* that s has
Slice(s, i, j) ==
  LET lo == IF i < 1 THEN 1 ELSE i
      hi == IF j > Len(s) THEN Len(s) ELSE j
  IN IF lo > hi THEN "" ELSE SubSeq(s, lo, hi)

Char(s, i) == Slice(s, i, i)

\* str.strip / str.split / the regex class \s
IsSpace(ch) == ch \in {" ", "\n", "\t"}

LowerLetters ==
  {"a","b","c","d","e","f","g","h","i","j","k","l","m",
   "n","o","p","q","r","s","t","u","v","w","x","y","z"}

UpperLetters ==
  {"A","B","C","D","E","F","G","H","I","J","K","L","M",
   "N","O","P","Q","R","S","T","U","V","W","X","Y","Z"}

Digits == {"0","1","2","3","4","5","6","7","8","9"}

LowerChar(ch) ==
  CASE ch = "A" -> "a" [] ch = "B" -> "b" [] ch = "C" -> "c" [] ch = "D" -> "d"
    [] ch = "E" -> "e" [] ch = "F" -> "f" [] ch = "G" -> "g" [] ch = "H" -> "h"
    [] ch = "I" -> "i" [] ch = "J" -> "j" [] ch = "K" -> "k" [] ch = "L" -> "l"
    [] ch = "M" -> "m" [] ch = "N" -> "n" [] ch = "O" -> "o" [] ch = "P" -> "p"
    [] ch = "Q" -> "q" [] ch = "R" -> "r" [] ch = "S" -> "s" [] ch = "T" -> "t"
    [] ch = "U" -> "u" [] ch = "V" -> "v" [] ch = "W" -> "w" [] ch = "X" -> "x"
    [] ch = "Y" -> "y" [] ch = "Z" -> "z" [] OTHER -> ch

\* str.lower, one half of the string after the other
RECURSIVE Lower(_)
Lower(s) ==
  IF Len(s) = 0 THEN ""
  ELSE IF Len(s) = 1 THEN LowerChar(s)
  ELSE Lower(Slice(s, 1, Len(s) \div 2)) \o Lower(Slice(s, Len(s) \div 2 + 1, Len(s)))

\* first position at or after i that holds no whitespace, Len(s) + 1 when
\* there is none
SkipSpace(s, i) ==
  IF i > Len(s) THEN i
  ELSE CHOOSE k \in i..(Len(s) + 1) :
         /\ k = Len(s) + 1 \/ ~IsSpace(Char(s, k))
         /\ \A j \in i..(k - 1) : IsSpace(Char(s, j))

\* first position at or after i that holds whitespace, Len(s) + 1 when there
\* is none
SkipWord(s, i) ==
  IF i > Len(s) THEN i
  ELSE CHOOSE k \in i..(Len(s) + 1) :
         /\ k = Len(s) + 1 \/ IsSpace(Char(s, k))
         /\ \A j \in i..(k - 1) : ~IsSpace(Char(s, j))

\* last position that holds no whitespace, 0 when there is none
LastNonSpace(s) ==
  CHOOSE k \in 0..Len(s) :
    /\ k = 0 \/ ~IsSpace(Char(s, k))
    /\ \A j \in (k + 1)..Len(s) : IsSpace(Char(s, j))

\* str.strip()
Strip(s) == Slice(s, SkipSpace(s, 1), LastNonSpace(s))

\* str.startswith
StartsWith(s, prefix) == Slice(s, 1, Len(prefix)) = prefix

\* str.endswith
EndsWith(s, suffix) ==
  Len(s) >= Len(suffix) /\ Slice(s, Len(s) - Len(suffix) + 1, Len(s)) = suffix

\* the `in` operator on two strings
Contains(s, sub) ==
  \E i \in 1..(Len(s) - Len(sub) + 1) : Slice(s, i, i + Len(sub) - 1) = sub

\* index of the first occurrence of the one-character string ch in s at or
\* after position i, Len(s) + 1 when there is none
Find(s, ch, i) ==
  IF i > Len(s) THEN Len(s) + 1
  ELSE CHOOSE k \in i..(Len(s) + 1) :
         /\ k = Len(s) + 1 \/ Char(s, k) = ch
         /\ \A j \in i..(k - 1) : Char(s, j) # ch

\* the n-th smallest member of a set of positions
Nth(positions, n) ==
  CHOOSE k \in positions : Cardinality({j \in positions : j <= k}) = n

\* str.split(): the maximal runs of non-whitespace, in order
Split(s) ==
  LET starts == {k \in 1..Len(s) :
                   ~IsSpace(Char(s, k)) /\ (k = 1 \/ IsSpace(Char(s, k - 1)))}
  IN [n \in 1..Cardinality(starts) |->
        Slice(s, Nth(starts, n), SkipWord(s, Nth(starts, n)) - 1)]

\* str.split(sep) for a one-character separator
SplitOn(s, sep) ==
  LET seps == {k \in 1..Len(s) : Char(s, k) = sep}
      cut(n) == IF n = 0 THEN 0
                ELSE IF n > Cardinality(seps) THEN Len(s) + 1
                ELSE Nth(seps, n)
  IN [n \in 1..(Cardinality(seps) + 1) |-> Slice(s, cut(n - 1) + 1, cut(n) - 1)]

\* sep.join(parts[lo..hi]), one half after the other
RECURSIVE JoinRange(_, _, _, _)
JoinRange(parts, sep, lo, hi) ==
  IF lo > hi THEN ""
  ELSE IF lo = hi THEN parts[lo]
  ELSE JoinRange(parts, sep, lo, (lo + hi) \div 2) \o sep
       \o JoinRange(parts, sep, (lo + hi) \div 2 + 1, hi)

\* sep.join(parts)
Join(parts, sep) == JoinRange(parts, sep, 1, Len(parts))

(***************************************************************************)
(* Repo configuration registry.                                            *)
(***************************************************************************)
\* the RepoConfig build_configs makes for one identifier of the list; Skip
\* for an identifier it does not know
Skip == [repo |-> ""]

RepoConfig(repo) ==
  IF repo = "apache/datafusion" THEN
    [repo |-> repo,
     allowed_standard |-> ALLOWED_BENCHMARKS_DF,
     allowed_criterion |-> ALLOWED_CRITERION_BENCHMARKS_DF,
     job_prefix |-> "",
     std_cmd |-> "gh_compare_branch.sh",
     criterion_cmd |-> "gh_compare_branch_bench.sh",
     file_naming |-> "df"]
  ELSE IF repo = "apache/arrow-rs" THEN
    [repo |-> repo,
     allowed_standard |-> {},
     allowed_criterion |-> ALLOWED_CRITERION_BENCHMARKS_ARROW,
     job_prefix |-> "arrow-",
     std_cmd |-> "gh_compare_arrow.sh",
     criterion_cmd |-> "gh_compare_arrow.sh",
     file_naming |-> "arrow"]
  ELSE Skip

\* a build_configs that gives up at the first identifier it does not know
RECURSIVE ConfigsUntilUnknown(_)
ConfigsUntilUnknown(repos) ==
  IF Len(repos) = 0 THEN <<>>
  ELSE LET r == Strip(Head(repos))
       IN IF r = "" THEN ConfigsUntilUnknown(Tail(repos))
          ELSE IF RepoConfig(r) = Skip THEN <<>>
          ELSE <<RepoConfig(r)>> \o ConfigsUntilUnknown(Tail(repos))

RECURSIVE ConfigsOf(_)
ConfigsOf(repos) ==
  IF Len(repos) = 0 THEN <<>>
  ELSE LET r == Strip(Head(repos))
       IN (IF r = "" \/ RepoConfig(r) = Skip THEN <<>> ELSE <<RepoConfig(r)>>)
          \o ConfigsOf(Tail(repos))

build_configs(env_repos) == ConfigsOf(SplitOn(env_repos, ":"))

\* main: the configurations of this run (REPO is not set: DEFAULT_REPOS)
configs == build_configs(DEFAULT_REPOS)

(***************************************************************************)
(* Command classifier.                                                     *)
(***************************************************************************)
None == "None"

\* the regex class [a-zA-Z0-9_\s]
NameChars == LowerLetters \cup UpperLetters \cup Digits \cup {"_"}

IsNameOrSpace(ch) == ch \in NameChars \/ IsSpace(ch)

AllNameOrSpace(s) == \A i \in 1..Len(s) : IsNameOrSpace(Char(s, i))

\* a match of the two words as they are written in the pattern
MatchDefaultExact(body) == body = "run benchmarks"

\* re.match(r"^\s*run\s+benchmarks\s*$", body, re.IGNORECASE): the position
\* after each piece of the pattern, matched left to right (a literal never
\* starts with whitespace, so the greedy \s* and \s+ never give back)
MatchDefault(body) ==
  LET s  == Lower(body)
      i1 == SkipSpace(s, 1)
      i2 == i1 + 3
      i3 == SkipSpace(s, i2)
      i4 == i3 + 10
      i5 == SkipSpace(s, i4)
  IN /\ Slice(s, i1, i2 - 1) = "run"
     /\ i3 > i2
     /\ Slice(s, i3, i4 - 1) = "benchmarks"
     /\ i5 = Len(s) + 1

\* re.match(r"^\s*run\s+benchmark\s+([a-zA-Z0-9_\s]+?)\s*$", body,
\* re.IGNORECASE): None, or the text from the end of "benchmark" on.  The
\* pattern matches when that text starts with whitespace (\s+), goes on for
\* at least one more character (the group) and holds only name characters
\* and whitespace; however the whitespace is shared out between \s+, the
\* group and \s*, the group's split() is the split() of that text.
MatchNamed(body) ==
  LET s  == Lower(body)
      i1 == SkipSpace(s, 1)
      i2 == i1 + 3
      i3 == SkipSpace(s, i2)
      i4 == i3 + 9
      rest == Slice(body, i4, Len(body))
  IN IF /\ Slice(s, i1, i2 - 1) = "run"
        /\ i3 > i2
        /\ Slice(s, i3, i4 - 1) = "benchmark"
        /\ Len(rest) >= 2
        /\ IsSpace(Char(rest, 1))
        /\ AllNameOrSpace(rest)
     THEN rest ELSE None

\* what detect_benchmark returns for None: no list of benchmarks
NoBenches == <<None>>

\* a detect_benchmark that keeps the names of the allow-sets and drops the
\* others
detect_allowed_names(cfg, body) ==
  IF MatchNamed(body) = None THEN NoBenches
  ELSE SelectSeq(Split(MatchNamed(body)),
                 LAMBDA name : name \in cfg.allowed_standard \cup cfg.allowed_criterion)

\* a detect_benchmark that does not look the names up
detect_any_name(cfg, body) ==
  IF MatchNamed(body) = None THEN NoBenches ELSE Split(MatchNamed(body))

detect_benchmark(cfg, body) ==
  IF MatchDefault(body) THEN <<>>
  ELSE IF MatchNamed(body) = None THEN NoBenches
  ELSE LET names == Split(MatchNamed(body))
       IN IF names = <<>> THEN NoBenches
          ELSE IF \A k \in 1..Len(names) :
                    names[k] \in cfg.allowed_standard \cup cfg.allowed_criterion
               THEN names
               ELSE NoBenches

\* url.rstrip("/")
RStripSlash(s) ==
  Slice(s, 1, CHOOSE k \in 0..Len(s) :
                /\ k = 0 \/ Char(s, k) # "/"
                /\ \A j \in (k + 1)..Len(s) : Char(s, j) = "/")

\* url.rstrip("/").split("/")[-1]: what follows the last "/" that is left
LastPart(u) ==
  Slice(u, 1 + (CHOOSE k \in 0..Len(u) :
                  /\ k = 0 \/ Char(u, k) = "/"
                  /\ \A j \in (k + 1)..Len(u) : Char(u, j) # "/"), Len(u))

pr_number_from_url(url) ==
  CHOOSE part \in {LastPart(u) : u \in {RStripSlash(url)}} : TRUE

(***************************************************************************)
(* Job descriptor emitter: rendering and naming.                           *)
(***************************************************************************)
PrUrl(cfg, pr_number) == "https://github.com/" \o cfg.repo \o "/pull/" \o pr_number

\* a line that takes every name for a standard benchmark
StandardLine(cfg, pr_number, bench) ==
  "BENCHMARKS=\"" \o bench \o "\" ./" \o cfg.std_cmd \o " "
    \o "https://github.com/" \o cfg.repo \o "/pull/" \o pr_number

BenchLine(cfg, pr_number, bench) ==
  IF bench \in cfg.allowed_criterion
  THEN "BENCH_NAME=\"" \o bench \o "\" ./" \o cfg.criterion_cmd \o " "
         \o PrUrl(cfg, pr_number)
  ELSE "BENCHMARKS=\"" \o bench \o "\" ./" \o cfg.std_cmd \o " "
         \o PrUrl(cfg, pr_number)

\* a script that binds the names of the list, whatever its length
script_with_binding(cfg, pr_number, benches) ==
  "BENCHMARKS=\"" \o Join(benches, " ") \o "\" ./" \o cfg.std_cmd \o " "
    \o "https://github.com/" \o cfg.repo \o "/pull/" \o pr_number

get_benchmark_script(cfg, pr_number, benches) ==
  IF benches # <<>>
  THEN Join([k \in 1..Len(benches) |-> BenchLine(cfg, pr_number, benches[k])], "\n")
  ELSE "./" \o cfg.std_cmd \o " " \o PrUrl(cfg, pr_number)

\* a name of the flat scheme for every repository
flat_file_name(cfg, pr_number, comment_id) ==
  "jobs/" \o pr_number \o "_" \o comment_id \o ".sh"

job_file_name(cfg, pr_number, comment_id) ==
  IF cfg.file_naming = "arrow"
  THEN "jobs/" \o cfg.job_prefix \o pr_number \o "-" \o comment_id \o ".sh"
  ELSE "jobs/" \o pr_number \o "_" \o comment_id \o ".sh"

\* a job file that repeats the body after the script
JobFileEchoingBody(cfg, pr_number, comment, benches) ==
  "# Automatically created by scrape_comments.py\n"
  \o "# PR: " \o PrUrl(cfg, pr_number) \o "\n"
  \o "# Comment: " \o comment.html_url \o "\n"
  \o "# User: " \o comment.login \o "\n"
  \o "# Body: " \o comment.body \o "\n"
  \o "\n"
  \o get_benchmark_script(cfg, pr_number, benches) \o " " \o comment.body
  \o "\n"

\* what process_comment writes to the job file (lines 454-462)
JobFileContent(cfg, pr_number, comment, benches) ==
  "# Automatically created by scrape_comments.py\n"
  \o "# PR: " \o PrUrl(cfg, pr_number) \o "\n"
  \o "# Comment: " \o comment.html_url \o "\n"
  \o "# User: " \o comment.login \o "\n"
  \o "# Body: " \o comment.body \o "\n"
  \o "\n"
  \o get_benchmark_script(cfg, pr_number, benches)
  \o "\n"

(***************************************************************************)
(* Reply bodies.                                                           *)
(***************************************************************************)
\* sorted(ALLOWED_USERS): Python orders strings by code point, capitals first
SortedAllowedUsers ==
  <<"Dandandan", "Omega359", "adriangb", "alamb", "geoffreyclaude",
    "rluvaton", "xudong963", "zhuqi-lucas">>

allowed_users_markdown ==
  Join([k \in 1..Len(SortedAllowedUsers) |->
          "[" \o SortedAllowedUsers[k] \o "](https://github.com/"
              \o SortedAllowedUsers[k] \o ")"], ", ")

\* sorted(names) of the three allow-sets of the configurations
Sorted(names) ==
  CASE names = ALLOWED_BENCHMARKS_DF ->
         <<"clickbench_1", "clickbench_extended", "clickbench_partitioned",
           "clickbench_pushdown", "tpch", "tpch10", "tpch_mem", "tpch_mem10">>
    [] names = ALLOWED_CRITERION_BENCHMARKS_DF ->
         <<"aggregate_query_sql", "aggregate_vectorized", "case_when",
           "in_list", "sql_planner">>
    [] names = ALLOWED_CRITERION_BENCHMARKS_ARROW ->
         <<"array_iter", "arrow_reader", "arrow_reader_clickbench",
           "arrow_reader_row_filter", "arrow_statistics", "arrow_writer",
           "coalesce_kernels", "concatenate_kernels", "filter_kernels",
           "interleave_kernels", "take_kernels", "union_array",
           "variant_builder", "variant_kernels", "variant_validation">>
    [] OTHER -> <<>>

\* post_user_notice: body
NoticeBody(login, comment_url) ==
  "Hi @" \o login \o ", thanks for the request (" \o comment_url \o "). "
  \o SCRIPT_MARKDOWN_LINK \o " only responds to whitelisted users. "
  \o "Allowed users: " \o allowed_users_markdown \o "."

\* [b for b in requested if b not in allowed_standard and b not in allowed_criterion]
RECURSIVE BadNames(_, _)
BadNames(cfg, requested) ==
  IF Len(requested) = 0 THEN <<>>
  ELSE (IF Head(requested) \notin cfg.allowed_standard \cup cfg.allowed_criterion
        THEN <<Head(requested)>> ELSE <<>>) \o BadNames(cfg, Tail(requested))

OrNone(text) == IF text = "" THEN "(none)" ELSE text

\* post_supported_benchmarks: body
SupportedBody(cfg, login, comment_url, requested) ==
  LET bad == BadNames(cfg, requested)
      unsupported == IF bad # <<>>
                     THEN "\nUnsupported benchmarks: " \o Join(bad, ", ") \o "."
                     ELSE ""
  IN "Hi @" \o login \o ", thanks for the request (" \o comment_url \o ").\n\n"
     \o SCRIPT_MARKDOWN_LINK \o " only supports whitelisted benchmarks.\n"
     \o "- Standard: " \o OrNone(Join(Sorted(cfg.allowed_standard), ", ")) \o "\n"
     \o "- Criterion: " \o OrNone(Join(Sorted(cfg.allowed_criterion), ", ")) \o "\n\n"
     \o "Please choose one or more of these with 'run benchmark <name>' or "
     \o "'run benchmark <name1> <name2>...'"
     \o unsupported

(***************************************************************************)
(* Queue introspector.  The jobs/ directory is a function from the names   *)
(* of the files it holds to [content, mtime].                              *)
(***************************************************************************)
\* line.rsplit(":", 1)[1].strip(): what follows the last colon
AfterLastColon(line) ==
  Strip(Slice(line, 1 + (CHOOSE k \in 1..Len(line) :
                           /\ Char(line, k) = ":"
                           /\ \A j \in (k + 1)..Len(line) : Char(line, j) # ":"),
              Len(line)))

\* line.split(":", 1)[1].strip()
AfterColon(line) == Strip(Slice(line, Find(line, ":", 1) + 1, Len(line)))

\* re.search(key + r'"([^"]+)"', line): the group of the leftmost match, None
\* when there is none (key is BENCHMARKS= or BENCH_NAME=)
BindingAt(line, key, i) ==
  LET open == i + Len(key)
      close == Find(line, "\"", open + 1)
  IN /\ Slice(line, i, open - 1) = key
     /\ Char(line, open) = "\""
     /\ close <= Len(line)
     /\ close > open + 1

SearchBinding(line, key) ==
  IF \A i \in 1..Len(line) : ~BindingAt(line, key, i) THEN None
  ELSE LET i == CHOOSE k \in 1..Len(line) :
                  BindingAt(line, key, k) /\ \A j \in 1..(k - 1) : ~BindingAt(line, key, j)
           open == i + Len(key)
       IN Slice(line, open + 1, Find(line, "\"", open + 1) - 1)

\* one turn of parse_job_metadata's loop over the lines of the file
ParseLine(acc, raw) ==
  LET line == Strip(raw)
  IN IF StartsWith(line, "# User:") THEN
       [acc EXCEPT !.user = IF AfterColon(line) = "" THEN @ ELSE AfterColon(line)]
     ELSE IF StartsWith(line, "# Comment:") THEN
       [acc EXCEPT !.comment = AfterColon(line)]
     ELSE IF Contains(line, "BENCHMARKS=") THEN
       (IF SearchBinding(line, "BENCHMARKS=") = None THEN acc
        ELSE [acc EXCEPT !.benchmarks =
                @ \o Split(SearchBinding(line, "BENCHMARKS="))])
     ELSE IF Contains(line, "BENCH_NAME=") THEN
       (IF SearchBinding(line, "BENCH_NAME=") = None THEN acc
        ELSE [acc EXCEPT !.benchmarks =
                Append(@, SearchBinding(line, "BENCH_NAME="))])
     ELSE acc

RECURSIVE ParseLines(_, _)
ParseLines(acc, lines) ==
  IF Len(lines) = 0 THEN acc
  ELSE ParseLines(ParseLine(acc, Head(lines)), Tail(lines))

\* parse_job_metadata of a file that exists: <<user, benchmarks, comment>>
parse_job_metadata(content) ==
  LET r == ParseLines([user |-> "unknown", comment |-> "", benchmarks |-> <<>>],
                      SplitOn(content, "\n"))
  IN <<r.user,
       IF r.benchmarks # <<>> THEN Join(r.benchmarks, " ") ELSE "default",
       r.comment>>

\* the names with the newest file first
RECURSIVE NewestFirst(_, _)
NewestFirst(dir, names) ==
  IF names = {} THEN <<>>
  ELSE LET first == CHOOSE n \in names :
                      \A m \in names : dir[n].mtime >= dir[m].mtime
       IN <<first>> \o NewestFirst(dir, names \ {first})

\* sorted(names, key=mtime)
RECURSIVE SortByMtime(_, _)
SortByMtime(dir, names) ==
  IF names = {} THEN <<>>
  ELSE LET first == CHOOSE n \in names :
                      \A m \in names : dir[n].mtime <= dir[m].mtime
       IN <<first>> \o SortByMtime(dir, names \ {first})

\* list_job_files: every regular file of jobs/ whose name ends with .sh
list_job_files(dir) ==
  SortByMtime(dir, {n \in DOMAIN dir : EndsWith(n, ".sh")})

\* os.path.basename of a path under jobs/
Basename(path) == Slice(path, Len("jobs/") + 1, Len(path))

QueueRow(dir, path) ==
  LET meta == parse_job_metadata(dir[path].content)
      comment_link == IF meta[3] # "" THEN meta[3] ELSE "unknown"
      benches_str == IF meta[2] # "" THEN meta[2] ELSE "unknown"
  IN "| '" \o Basename(path) \o "' | " \o meta[1] \o " | " \o benches_str
     \o " | '" \o comment_link \o "' |"

\* post_queue: body, from the job files listed when it is built
QueueBody(dir, login, comment_url) ==
  LET job_files == list_job_files(dir)
      head == <<"Hi @" \o login \o ", you asked to view the benchmark queue ("
                \o comment_url \o ").", "">>
  IN Join(head \o
          (IF job_files = <<>> THEN <<"No pending jobs in 'jobs/'.">>
           ELSE <<"| Job | User | Benchmarks | Comment |", "| --- | --- | --- | --- |">>
                \o [k \in 1..Len(job_files) |-> QueueRow(dir, job_files[k])]),
          "\n")

(***************************************************************************)
(* The environment: the comments GitHub returns, the issue threads, the    *)
(* jobs/ directory.                                                        *)
(***************************************************************************)
\* the comments of the time window, in the order the API returns them
\* (sort=updated, direction=desc); 12 and 123 are comments of one pull
\* request, and the URL of 12 is a prefix of the URL of 123
CommentIds == <<123, 12, 45>>

CommentRepo(id) == IF id = 45 THEN "apache/arrow-rs" ELSE "apache/datafusion"

CommentPr(id) == IF id = 45 THEN "8" ELSE "7"

\* a record of the comments API for comment id with the given author and text
Comment(id, login, body) ==
  [id |-> id, login |-> login, body |-> body,
   html_url |-> "https://github.com/" \o CommentRepo(id) \o "/pull/"
                  \o CommentPr(id) \o "#issuecomment-" \o ToString(id),
   issue_url |-> "https://api.github.com/repos/" \o CommentRepo(id)
                  \o "/issues/" \o CommentPr(id)]

\* the (author, text) pairs a comment is drawn from
Requests ==
  {<<"alamb", "run benchmarks">>,
   <<"alamb", " Run  benchmark tpch\n">>,
   <<"mallory", "run benchmark tpch">>,
   <<"mallory", "run benchmark nosuch">>,
   <<"mallory", "show benchmark queue">>,
   <<"alamb", "Show Benchmark Queue\n">>,
   <<"alamb", "run benchmarking later">>,
   <<"alamb", "thanks, looks good">>}

\* the pairs each comment is drawn from
RequestsOf(id) ==
  CASE id = 123 -> {<<"alamb", " Run  benchmark tpch\n">>,
                    <<"mallory", "run benchmark tpch">>}
    [] id = 12  -> {<<"mallory", "run benchmark nosuch">>,
                    <<"alamb", "run benchmarking later">>,
                    <<"alamb", "thanks, looks good">>}
    [] OTHER    -> {<<"mallory", "show benchmark queue">>,
                    <<"alamb", "Show Benchmark Queue\n">>,
                    <<"alamb", "run benchmarks">>}

\* the issue threads: the pull requests the comments are on
Threads == {<<CommentRepo(CommentIds[k]), CommentPr(CommentIds[k])>> : k \in 1..Len(CommentIds)}

\* the number of comments a pull request has before the dispatcher replies
ThreadSizes == {2, PER_PAGE}

\* the dispatcher invocations: the n-th is process n
Procs == 1..MaxRuns

NoReply == [kind |-> "none", body |-> "", to |-> 0]

VARIABLES
  comments,   \* comment id -> record of the comments API
  issues,     \* thread -> [count, replies]: its comments; replies are the
              \*   dispatcher's, each [body, kind, to, pos, seen, by]
  jobs,       \* name of a file of jobs/ -> [content, mtime]
  clock,      \* the time of the last change of jobs/
  reactions,  \* comment id -> reactions posted on it
  written,    \* comment id -> times its job descriptor was written
  run,        \* process -> where it is in main and process_comment, and
              \*   the locals of process_comment
  fetched,    \* process -> the comments of the repository it is working on
  cache,      \* process -> _issue_comment_cache
  pending,    \* process -> the reply process_comment decided on
  handled,    \* process -> the comments process_comment returned from, each
              \*   <<id, how>>: how names the return
  runs,       \* invocations started
  faults,     \* API calls that failed or returned garbage
  clean,      \* no fault and no worker step since the last invocation began
  base,       \* the effects counted when this invocation began right after
              \*   a clean, completed one; -1 otherwise
  builder,    \* ensure_datafusion_cli.py: main, its executor and its builds
  clickbench, \* run_clickbench.py: main and the output directory
  probe       \* an input of a function of scrape_comments.py and its result

\* the state of scrape_comments.py
dispatcher == <<comments, issues, jobs, clock, reactions, written, run,
                fetched, cache, pending, handled, runs, faults, clean, base>>

vars == <<comments, issues, jobs, clock, reactions, written, run, fetched,
          cache, pending, handled, runs, faults, clean, base,
          builder, clickbench, probe>>

\* the state of the other programs and of the function under study
others == <<builder, clickbench, probe>>

\* the value of the variable of a program that is not running
NotRunning == <<>>

IdSet == {CommentIds[k] : k \in 1..Len(CommentIds)}

RECURSIVE SumOver(_, _)
SumOver(f, S) ==
  IF S = {} THEN 0
  ELSE LET x == CHOOSE y \in S : TRUE IN f[x] + SumOver(f, S \ {x})

\* replies posted + job descriptors written + reactions posted
Effects ==
  SumOver([t \in Threads |-> Len(issues[t].replies)], Threads)
  + SumOver(written, IdSet) + SumOver(reactions, IdSet)

\* pc, cfg, idx: the position in main; pr_number, benches, file_name: locals
\* of process_comment; status: the exit status; failedAt, garbage and
\* checkedAt record what happened (the repository an API call failed in,
\* the response that was no JSON, the time of the os.path.exists check)
Idle == [pc |-> "idle", cfg |-> 0, idx |-> 0, status |-> -1,
         pr_number |-> "", benches |-> <<>>, file_name |-> "",
         failedAt |-> 0, garbage |-> "", checkedAt |-> 0, wrote |-> 0]

Init ==
  /\ comments \in {f \in [IdSet -> {Comment(id, rq[1], rq[2]) : id \in IdSet, rq \in Requests}] :
                     \A id \in IdSet :
                       f[id].id = id /\ <<f[id].login, f[id].body>> \in RequestsOf(id)}
  /\ \E n \in ThreadSizes : issues = [t \in Threads |-> [count |-> n, replies |-> <<>>]]
  /\ jobs = <<>>
  /\ clock = 0
  /\ reactions = [id \in IdSet |-> 0]
  /\ written = [id \in IdSet |-> 0]
  /\ run = [p \in Procs |-> Idle]
  /\ fetched = [p \in Procs |-> <<>>]
  /\ cache = [p \in Procs |-> <<>>]
  /\ pending = [p \in Procs |-> NoReply]
  /\ handled = [p \in Procs |-> {}]
  /\ runs = 0
  /\ faults = 0
  /\ clean = FALSE
  /\ base = -1
  /\ builder = NotRunning
  /\ clickbench = NotRunning
  /\ probe = NotRunning

(***************************************************************************)
(* main and process_comment, one action per call that reaches outside the  *)
(* process (the API, the jobs/ directory).                                 *)
(***************************************************************************)
Running(p) == run[p].pc \notin {"idle", "finished", "exited"}

Cfg(p) == configs[run[p].cfg]

\* the comment process_comment is working on
Cur(p) == fetched[p][run[p].idx]

\* the key of _issue_comment_cache: (cfg.repo, pr_number)
CurThread(p) == <<Cfg(p).repo, run[p].pr_number>>

\* what the API returns for the comments of a repository
RECURSIVE RecentOf(_, _)
RecentOf(repo, ids) ==
  IF Len(ids) = 0 THEN <<>>
  ELSE (IF CommentRepo(Head(ids)) = repo THEN <<comments[Head(ids)]>> ELSE <<>>)
       \o RecentOf(repo, Tail(ids))

\* the comments of other people, without a trigger, that were updated in the
\* time window after the comments followed here: none, or a page of them
NewerCounts == {0, PER_PAGE}

\* per_page=PER_PAGE, sort=updated, direction=desc, one call: the comments
\* followed here that are on the page, newer others coming first
FirstPageOf(recent, newer) ==
  SubSeq(recent, 1, IF PER_PAGE - newer < Len(recent) THEN PER_PAGE - newer
                    ELSE Len(recent))

\* the outcomes of a gh api call that reads: success, a non-zero exit,
\* output that is no JSON, JSON that is no list
ReadOutcomes == {"ok", "fail", "garbage", "notlist"}

\* the outcomes of a gh api call that posts
PostOutcomes == {"ok", "fail"}

MayFault(o) == o = "ok" \/ faults < MaxFaults

Count(o) == IF o = "ok" THEN faults ELSE faults + 1

\* a loop that passes over the comment after this one
ReturnSkipping(r) ==
  [r EXCEPT !.pc = "comment", !.idx = r.idx + 2, !.pr_number = "",
            !.benches = <<>>, !.file_name = "", !.garbage = "", !.checkedAt = 0,
            !.wrote = 0]

\* process_comment returns: on to the next comment of the list
Return(r) ==
  [r EXCEPT !.pc = "comment", !.idx = r.idx + 1, !.pr_number = "",
            !.benches = <<>>, !.file_name = "", !.garbage = "", !.checkedAt = 0,
            !.wrote = 0]

GhFailureContinues(r) == [Return(r) EXCEPT !.idx = 0, !.failedAt = r.cfg]

\* run_gh_api, lines 115-117: gh exited non-zero
GhFailure(r) == [r EXCEPT !.pc = "exited", !.status = 1, !.failedAt = r.cfg]

RecentGarbageIsEmpty(r) == [r EXCEPT !.pc = "comment", !.idx = 1, !.garbage = "recent"]

\* fetch_recent_review_comments, lines 142-146: the output is no JSON
RecentGarbage(r) == [r EXCEPT !.pc = "exited", !.status = 1, !.garbage = "recent"]

\* main, lines 501-513: invocation p starts; its cache is empty
Begin(p) ==
  /\ p = runs + 1
  /\ runs' = runs + 1
  /\ run' = [run EXCEPT ![p] = [Idle EXCEPT !.pc = "fetch", !.cfg = 1]]
  /\ fetched' = [fetched EXCEPT ![p] = <<>>]
  /\ cache' = [cache EXCEPT ![p] = <<>>]
  /\ pending' = [pending EXCEPT ![p] = NoReply]
  /\ handled' = [handled EXCEPT ![p] = {}]
  /\ base' = IF clean /\ \E q \in Procs : run[q].pc = "finished" THEN Effects ELSE -1
  /\ clean' = TRUE
  /\ UNCHANGED <<others, comments, issues, jobs, clock, reactions, written, faults>>

\* an invocation that starts when no other is running
StartRun(p) ==
  /\ \A q \in Procs : ~Running(q)
  /\ Begin(p)

\* an invocation that starts whatever the others do
StartOverlapping(p) == Begin(p)

\* main line 516: fetch_recent_review_comments
FetchComments(p) ==
  /\ run[p].pc = "fetch"
  /\ \E o \in ReadOutcomes, newer \in NewerCounts :
       /\ MayFault(o)
       /\ o # "ok" => newer = 0
       /\ faults' = Count(o)
       /\ clean' = (clean /\ o = "ok" /\ newer = 0)
       /\ run' = [run EXCEPT ![p] =
                    CASE o = "fail" -> GhFailure(@)
                      [] o = "garbage" -> RecentGarbage(@)
                      [] OTHER -> [@ EXCEPT !.pc = "comment", !.idx = 1]]
       /\ fetched' = [fetched EXCEPT ![p] =
                        IF o = "ok"
                        THEN FirstPageOf(RecentOf(Cfg(p).repo, CommentIds), newer)
                        ELSE <<>>]
  /\ UNCHANGED <<others, comments, issues, jobs, clock, reactions, written, cache,
                 pending, handled, runs, base>>

\* main lines 515-519: the comments of this repository are done
NextRepo(p) ==
  /\ run[p].pc = "comment"
  /\ run[p].idx \notin 1..Len(fetched[p])
  /\ run' = [run EXCEPT ![p] =
               IF run[p].cfg < Len(configs)
               THEN [@ EXCEPT !.pc = "fetch", !.cfg = @ + 1, !.idx = 0]
               ELSE [@ EXCEPT !.pc = "finished", !.status = 0]]
  /\ fetched' = [fetched EXCEPT ![p] = <<>>]
  /\ UNCHANGED <<others, comments, issues, jobs, clock, reactions, written, cache,
                 pending, handled, runs, faults, clean, base>>

Everyone(login) == TRUE

\* login not in ALLOWED_USERS, lines 426 and 432
Authorized(login) == login \in ALLOWED_USERS

\* a process_comment that tests the author before anything else
RouteGated(comment, benches) ==
  IF \E text \in {Lower(Strip(comment.body))} :
       /\ text # "show benchmark queue"
       /\ benches = NoBenches
       /\ ~StartsWith(text, "run benchmark")
  THEN "none"
  ELSE IF ~Authorized(comment.login) THEN "notice"
  ELSE IF \E text \in {Lower(Strip(comment.body))} : text = "show benchmark queue"
  THEN "queue"
  ELSE IF benches = NoBenches THEN "supported"
  ELSE "job"

\* process_comment lines 415-435, given what detect_benchmark returned:
\* what the comment asks for.  "queue", "notice" and "supported" name the
\* reply to post, "job" the descriptor to write, "none" nothing
Route(comment, benches) ==
  IF \E text \in {Lower(Strip(comment.body))} : text = "show benchmark queue"
  THEN "queue"
  ELSE IF benches = NoBenches THEN
    (IF \E text \in {Lower(Strip(comment.body))} : StartsWith(text, "run benchmark")
     THEN (IF ~Authorized(comment.login) THEN "notice" ELSE "supported")
     ELSE "none")
  ELSE IF ~Authorized(comment.login) THEN "notice"
  ELSE "job"

\* body.split()[2:]
Requested(body) ==
  CHOOSE names \in {SubSeq(words, 3, Len(words)) : words \in {Split(body)}} : TRUE

\* process_comment lines 400-442: from the top to the first call that
\* leaves the process
Dispatch(p) ==
  /\ run[p].pc = "comment"
  /\ run[p].idx \in 1..Len(fetched[p])
  /\ \E c \in {Cur(p)} :
     \E pr \in {pr_number_from_url(c.issue_url)} :
     \E benches \in {detect_benchmark(Cfg(p), c.body)} :
     \E route \in {IF pr = "" THEN "none" ELSE Route(c, benches)} :
        /\ run' = [run EXCEPT ![p] =
                     CASE route = "none" -> Return(@)
                       [] route = "job" ->
                            [@ EXCEPT !.pc = "exists", !.pr_number = pr,
                                      !.benches = benches,
                                      !.file_name = job_file_name(Cfg(p), pr, ToString(c.id))]
                       [] OTHER -> [@ EXCEPT !.pc = "posted", !.pr_number = pr]]
        /\ pending' = [pending EXCEPT ![p] =
             CASE route = "notice" ->
                    [kind |-> route, to |-> c.id, body |-> NoticeBody(c.login, c.html_url)]
               [] route = "supported" ->
                    [kind |-> route, to |-> c.id,
                     body |-> SupportedBody(Cfg(p), c.login, c.html_url, Requested(c.body))]
               [] route = "queue" -> [kind |-> route, to |-> c.id, body |-> ""]
               [] OTHER -> NoReply]
        /\ handled' = [handled EXCEPT ![p] =
                        IF route = "none" THEN @ \cup {<<c.id, "none">>} ELSE @]
  /\ UNCHANGED <<others, comments, issues, jobs, clock, reactions, written, fetched,
                 cache, runs, faults, clean, base>>

\* the GitHub API, GET /issues/{n}/comments with per_page only: the first
\* page of the thread, oldest comment first.  Of its bodies the model keeps
\* the dispatcher's replies; the other comments of these threads are the
\* requests themselves and text that names no comment URL.
RECURSIVE FirstPage(_)
FirstPage(replies) ==
  IF Len(replies) = 0 THEN <<>>
  ELSE (IF Head(replies).pos <= PER_PAGE THEN <<Head(replies).body>> ELSE <<>>)
       \o FirstPage(Tail(replies))

\* fetch_issue_comment_bodies lines 165-176: the bodies made of the output
BodiesOf(o, issue) == IF o = "ok" THEN FirstPage(issue.replies) ELSE <<>>

AlwaysUnposted(bodies, comment_url) == FALSE

\* already_posted, given the bodies fetch_issue_comment_bodies returned
already_posted(bodies, comment_url) ==
  \E body \in {bodies[k] : k \in 1..Len(bodies)} : Contains(body, comment_url)

\* the three post_* functions after already_posted returned: skip, or go on
\* to post (post_queue builds its body now, from jobs/ as it is); garbage
\* tells whether the bodies were made of output that was no JSON
AfterCheck(p, bodies, garbage) ==
  \E c \in {Cur(p)} :
  \E found \in {already_posted(bodies, c.html_url)} :
     IF found
     THEN /\ run' = [run EXCEPT ![p] = Return(@)]
          /\ handled' = [handled EXCEPT ![p] = @ \cup {<<c.id, "already_posted">>}]
          /\ pending' = [pending EXCEPT ![p] = NoReply]
     ELSE /\ run' = [run EXCEPT ![p].pc = "post", ![p].garbage = garbage]
          /\ handled' = handled
          /\ pending' = [pending EXCEPT ![p].body =
                           IF pending[p].kind = "queue"
                           THEN QueueBody(jobs, c.login, c.html_url) ELSE @]

\* already_posted with the thread in the cache: no API call
CheckPostedCached(p) ==
  /\ run[p].pc = "posted"
  /\ \E t \in {CurThread(p)} :
       /\ t \in DOMAIN cache[p]
       /\ \E bodies \in {cache[p][t].bodies} : AfterCheck(p, bodies, "")
  /\ UNCHANGED <<others, comments, issues, jobs, clock, reactions, written, fetched,
                 cache, runs, faults, clean, base>>

\* already_posted with the thread not in the cache: fetch_issue_comment_bodies
\* calls the API and fills the cache
CheckPosted(p) ==
  /\ run[p].pc = "posted"
  /\ CurThread(p) \notin DOMAIN cache[p]
  /\ \E o \in ReadOutcomes :
       /\ MayFault(o)
       /\ faults' = Count(o)
       /\ clean' = (clean /\ o = "ok")
       /\ IF o = "fail"
          THEN /\ run' = [run EXCEPT ![p] = GhFailure(@)]
               /\ UNCHANGED <<cache, pending, handled>>
          ELSE \E t \in {CurThread(p)} :
               \E bodies \in {BodiesOf(o, issues[t])} :
                  /\ cache' = [cache EXCEPT ![p] =
                                 (t :> [bodies |-> bodies, at |-> issues[t].count]) @@ @]
                  /\ AfterCheck(p, bodies, IF o = "garbage" THEN "bodies" ELSE "")
  /\ UNCHANGED <<others, comments, issues, jobs, clock, reactions, written, fetched,
                 runs, base>>

\* a post_* that leaves the cached list as it is
KeepCached(bodies, body) == bodies

\* fetch_issue_comment_bodies(cfg, pr_number).append(body): the cached list
\* after a reply was posted
AppendToCached(bodies, body) == Append(bodies, body)

\* run_gh_api POST /issues/{n}/comments, then the append to the cached list
PostReply(p) ==
  /\ run[p].pc = "post"
  /\ \E o \in PostOutcomes :
       /\ MayFault(o)
       /\ faults' = Count(o)
       /\ clean' = (clean /\ o = "ok")
       /\ IF o = "fail"
          THEN /\ run' = [run EXCEPT ![p] = GhFailure(@)]
               /\ UNCHANGED <<issues, cache, handled>>
          ELSE \E t \in {CurThread(p)} :
                  /\ issues' = [issues EXCEPT ![t] =
                       [count |-> @.count + 1,
                        replies |-> Append(@.replies,
                           [body |-> pending[p].body, kind |-> pending[p].kind,
                            to |-> pending[p].to, pos |-> @.count + 1,
                            seen |-> cache[p][t].at, by |-> p])]]
                  /\ cache' = [cache EXCEPT ![p][t].bodies =
                                 AppendToCached(@, pending[p].body)]
                  /\ run' = [run EXCEPT ![p] = Return(@)]
                  /\ handled' = [handled EXCEPT ![p] = @ \cup {<<pending[p].to, "replied">>}]
  /\ pending' = [pending EXCEPT ![p] = NoReply]
  /\ UNCHANGED <<others, comments, jobs, clock, reactions, written, fetched, runs, base>>

NeverExists(dir, name) == FALSE

\* os.path.exists(file_name), line 443
JobFileExists(dir, name) == name \in DOMAIN dir

\* os.path.exists(done_file_name), lines 446-447
DoneFileExists(dir, name) == (name \o ".done") \in DOMAIN dir

\* process_comment lines 442-445
CheckJobFile(p) ==
  /\ run[p].pc = "exists"
  /\ IF JobFileExists(jobs, run[p].file_name)
     THEN /\ run' = [run EXCEPT ![p] = Return(@)]
          /\ handled' = [handled EXCEPT ![p] = @ \cup {<<Cur(p).id, "file_exists">>}]
     ELSE /\ run' = [run EXCEPT ![p].pc = "done_exists", ![p].checkedAt = clock]
          /\ handled' = handled
  /\ UNCHANGED <<others, comments, issues, jobs, clock, reactions, written, fetched,
                 cache, pending, runs, faults, clean, base>>

\* process_comment lines 446-449
CheckDoneFile(p) ==
  /\ run[p].pc = "done_exists"
  /\ IF DoneFileExists(jobs, run[p].file_name)
     THEN /\ run' = [run EXCEPT ![p] = Return(@)]
          /\ handled' = [handled EXCEPT ![p] = @ \cup {<<Cur(p).id, "done_exists">>}]
     ELSE /\ run' = [run EXCEPT ![p].pc = "write"]
          /\ handled' = handled
  /\ UNCHANGED <<others, comments, issues, jobs, clock, reactions, written, fetched,
                 cache, pending, runs, faults, clean, base>>

\* a process_comment that goes on to the reaction without the file
WriteNothing(p) ==
  /\ run[p].pc = "write"
  /\ run' = [run EXCEPT ![p].pc = "react"]
  /\ UNCHANGED <<others, comments, issues, jobs, clock, reactions, written, fetched,
                 cache, pending, handled, runs, faults, clean, base>>

\* process_comment lines 451-464: open(file_name, "w") makes the file or
\* truncates the one that is there; wrote is the comment whose descriptor
\* this call wrote and closed
WriteJobFile(p) ==
  /\ run[p].pc = "write"
  /\ \E c \in {Cur(p)} :
        /\ jobs' = (run[p].file_name
                      :> [content |-> JobFileContent(Cfg(p), run[p].pr_number, c,
                                                     run[p].benches),
                          mtime |-> clock + 1]) @@ jobs
        /\ written' = [written EXCEPT ![c.id] = @ + 1]
        /\ IF c.id # 0
           THEN /\ run' = [run EXCEPT ![p].pc = "react", ![p].wrote = c.id]
                /\ handled' = handled
           ELSE /\ run' = [run EXCEPT ![p] = Return(@)]
                /\ handled' = [handled EXCEPT ![p] = @ \cup {<<c.id, "written">>}]
  /\ clock' = clock + 1
  /\ UNCHANGED <<others, comments, issues, reactions, fetched, cache, pending, runs,
                 faults, clean, base>>

\* post_reaction, line 465
PostReaction(p) ==
  /\ run[p].pc = "react"
  /\ \E o \in PostOutcomes :
       /\ MayFault(o)
       /\ faults' = Count(o)
       /\ clean' = (clean /\ o = "ok")
       /\ IF o = "fail"
          THEN /\ run' = [run EXCEPT ![p] = GhFailure(@)]
               /\ UNCHANGED <<reactions, handled>>
          ELSE /\ reactions' = [reactions EXCEPT ![Cur(p).id] = @ + 1]
               /\ run' = [run EXCEPT ![p] = Return(@)]
               /\ handled' = [handled EXCEPT ![p] = @ \cup {<<Cur(p).id, "scheduled">>}]
  /\ UNCHANGED <<others, comments, issues, jobs, clock, written, fetched, cache,
                 pending, runs, base>>

\* the external worker finishes a job: it leaves <file>.done, either next to
\* the descriptor or in its place
Worker(name) ==
  /\ name \in DOMAIN jobs
  /\ EndsWith(name, ".sh")
  /\ (name \o ".done") \notin DOMAIN jobs
  /\ \/ /\ jobs' = ((name \o ".done") :> [content |-> "", mtime |-> clock + 1]) @@ jobs
        /\ clock' = clock + 1
     \/ /\ jobs' = ((name \o ".done") :> jobs[name])
                   @@ [n \in DOMAIN jobs \ {name} |-> jobs[n]]
        /\ clock' = clock
  /\ clean' = FALSE
  /\ UNCHANGED <<others, comments, issues, reactions, written, run, fetched, cache,
                 pending, handled, runs, faults, base>>

Step(p) ==
  \/ FetchComments(p)
  \/ NextRepo(p)
  \/ Dispatch(p)
  \/ CheckPostedCached(p)
  \/ CheckPosted(p)
  \/ PostReply(p)
  \/ CheckJobFile(p)
  \/ CheckDoneFile(p)
  \/ WriteJobFile(p)
  \/ PostReaction(p)

\* the dispatcher run on a schedule, one invocation after the other, and the
\* worker
Next ==
  \/ \E p \in Procs : StartRun(p)
  \/ \E p \in Procs : Step(p)
  \/ \E name \in DOMAIN jobs : Worker(name)

Spec == Init /\ [][Next]_vars

\* the steps of an invocation other than Dispatch and CheckPosted
LightStep(p) ==
  \/ FetchComments(p)
  \/ NextRepo(p)
  \/ CheckPostedCached(p)
  \/ PostReply(p)
  \/ CheckJobFile(p)
  \/ CheckDoneFile(p)
  \/ WriteJobFile(p)
  \/ PostReaction(p)

\* what enables Dispatch(p) or CheckPosted(p)
AtCheck(p) ==
  \/ run[p].pc = "comment" /\ run[p].idx \in 1..Len(fetched[p])
  \/ run[p].pc = "posted" /\ CurThread(p) \notin DOMAIN cache[p]

\* the schedule goes on: the next invocation starts, up to MaxRuns, and an
\* invocation that can take a step takes it (a Python process runs to its
\* end); at most MaxFaults calls fail.  The weak fairness of Dispatch and of
\* CheckPosted is written with what enables them
SpecLive ==
  /\ Spec
  /\ WF_vars(\E p \in Procs : StartRun(p))
  /\ \A p \in Procs : WF_vars(LightStep(p))
  /\ \A p \in Procs : []<>(~AtCheck(p))

\* invocations that overlap, the worker at rest
NextOverlap ==
  \/ \E p \in Procs : StartOverlapping(p)
  \/ \E p \in Procs : Step(p)

\* overlapping invocations are followed on pull requests of a few comments
InitOverlap == Init /\ \A t \in Threads : issues[t].count < PER_PAGE

SpecOverlap == InitOverlap /\ [][NextOverlap]_vars

(***************************************************************************)
(* ensure_datafusion_cli.py: main, the thread pool and its builds.         *)
(***************************************************************************)
MaxBuilds == 2
MaxCommits == 3

\* the commits of the time range, oldest first
RecentCommits == <<"a1f0", "b2e1", "c3d2", "d4c3">>

\* files builds/ may hold when main starts
BuildFiles == {"datafusion-cli@a1f0@1700000000", "datafusion-cli@b2e1@1700000100",
               "notes.txt"}

\* a check that finds no build
no_existing_builds(builds_dir) == {}

\* the function of the files of builds/ the script reads
check_existing_builds(builds_dir) ==
  {SplitOn(name, "@")[2] : name \in {n \in builds_dir : StartsWith(n, "datafusion-cli@")}}

\* the i-th checkout directory of main, i from 0
CheckoutDir(datafusion_dir, i) ==
  IF i = 0 THEN datafusion_dir ELSE datafusion_dir \o ToString(i + 1)

NoTask == [commit |-> "", checkout_dir |-> "", thread_id |-> 0, future |-> 0]

\* the dispatcher's variables while another program is followed
DispatcherNotRunning ==
  /\ comments = NotRunning /\ issues = NotRunning /\ jobs = NotRunning
  /\ clock = 0 /\ reactions = NotRunning /\ written = NotRunning
  /\ run = NotRunning /\ fetched = NotRunning /\ cache = NotRunning
  /\ pending = NotRunning /\ handled = NotRunning
  /\ runs = 0 /\ faults = 0 /\ clean = FALSE /\ base = -1

\* the arguments and the environment of one invocation: unusable holds the
\* checkouts that are missing and cannot be cloned
InitBuild ==
  /\ DispatcherNotRunning
  /\ clickbench = NotRunning
  /\ probe = NotRunning
  /\ \E num_builds \in 0..MaxBuilds, n \in 0..MaxCommits,
        builds_dir \in SUBSET BuildFiles, primary \in BOOLEAN,
        unusable \in SUBSET (1..(MaxBuilds - 1)) :
       builder = [pc |-> "main", num_builds |-> num_builds,
                  datafusion_dir |-> "datafusion",
                  commits |-> SubSeq(RecentCommits, 1, n),
                  builds_dir |-> builds_dir, primary |-> primary,
                  unusable |-> unusable,
                  commits_to_build |-> <<>>, checkout_dirs |-> <<>>,
                  checkout_index |-> 0, queue |-> <<>>, running |-> <<>>,
                  finished |-> {}, collected |-> 0,
                  successful_builds |-> 0, failed_builds |-> 0,
                  exit_code |-> -1]

BuildUnchanged == UNCHANGED <<dispatcher, clickbench, probe>>

\* main up to the thread pool (lines 133-172)
BuildSetup ==
  /\ builder.pc = "main"
  /\ \E existing_builds \in {check_existing_builds(builder.builds_dir)} :
     \E todo \in {SelectSeq(builder.commits, LAMBDA c : c \notin existing_builds)} :
     \E dirs \in {[k \in 1..Cardinality({i \in 0..(builder.num_builds - 1) :
                                           i \notin builder.unusable}) |->
                     CheckoutDir(builder.datafusion_dir,
                                 Nth({i \in 0..(builder.num_builds - 1) :
                                        i \notin builder.unusable}, k))]} :
       builder' =
         IF ~builder.primary
         THEN [builder EXCEPT !.pc = "exited", !.exit_code = 1]
         ELSE IF builder.commits = <<>> \/ todo = <<>>
         THEN [builder EXCEPT !.pc = "returned", !.exit_code = 0,
                              !.commits_to_build = todo]
         ELSE IF dirs = <<>>
         THEN [builder EXCEPT !.pc = "exited", !.exit_code = 1,
                              !.commits_to_build = todo]
         ELSE [builder EXCEPT !.pc = "submit", !.commits_to_build = todo,
                              !.checkout_dirs = dirs,
                              !.running = [w \in 1..Len(dirs) |-> NoTask]]
  /\ BuildUnchanged

\* one turn of the submission loop (lines 183-189)
BuildSubmit ==
  /\ builder.pc = "submit"
  /\ \E n \in {Len(builder.checkout_dirs)} :
     \E i \in {builder.checkout_index} :
       builder' =
         [builder EXCEPT
            !.queue = Append(@, [commit |-> builder.commits_to_build[i + 1],
                                 checkout_dir |-> builder.checkout_dirs[(i % n) + 1],
                                 thread_id |-> (i % n) + 1,
                                 future |-> i + 1]),
            !.checkout_index = i + 1,
            !.pc = IF i + 1 = Len(builder.commits_to_build)
                   THEN "collect" ELSE "submit"]
  /\ BuildUnchanged

\* a free worker thread of the executor takes the oldest submitted task and
\* calls build_commit (lines 79-95)
BuildStart(w) ==
  /\ builder.pc \in {"submit", "collect"}
  /\ w \in DOMAIN builder.running
  /\ builder.running[w] = NoTask
  /\ builder.queue # <<>>
  /\ builder' = [builder EXCEPT !.running[w] = Head(builder.queue),
                                !.queue = Tail(@)]
  /\ BuildUnchanged

\* the build script ends and build_commit returns (lines 97-103)
BuildFinish(w) ==
  /\ builder.pc \in {"submit", "collect"}
  /\ w \in DOMAIN builder.running
  /\ builder.running[w] # NoTask
  /\ \E success \in BOOLEAN :
       builder' = [builder EXCEPT
                     !.running[w] = NoTask,
                     !.finished = @ \cup {[future |-> builder.running[w].future,
                                           commit |-> builder.running[w].commit,
                                           success |-> success]}]
  /\ BuildUnchanged

\* one turn of the as_completed loop (lines 192-199)
BuildCollect ==
  /\ builder.pc = "collect"
  /\ \E f \in builder.finished :
       builder' = [builder EXCEPT
                     !.finished = @ \ {f},
                     !.collected = @ + 1,
                     !.successful_builds = IF f.success THEN @ + 1 ELSE @,
                     !.failed_builds = IF f.success THEN @ ELSE @ + 1]
  /\ BuildUnchanged

\* the summary (lines 201-204)
BuildSummary ==
  /\ builder.pc = "collect"
  /\ builder.collected = Len(builder.commits_to_build)
  /\ builder' = [builder EXCEPT !.pc = "returned", !.exit_code = 0]
  /\ BuildUnchanged

NextBuild ==
  \/ BuildSetup
  \/ BuildSubmit
  \/ \E w \in 1..MaxBuilds : BuildStart(w)
  \/ \E w \in 1..MaxBuilds : BuildFinish(w)
  \/ BuildCollect
  \/ BuildSummary

SpecBuild == InitBuild /\ [][NextBuild]_vars

\* main runs on, the executor's threads take the tasks submitted, and the
\* build script of a task ends
SpecBuildLive == SpecBuild /\ WF_vars(NextBuild)

(***************************************************************************)
(* run_clickbench.py: main, the queries and the output directory.          *)
(***************************************************************************)
MaxInvocations == 2

\* for query in range(0, 43)
NUM_QUERIES == 43

\* the keys of a result, in the order run_clickbench_query inserts them
RESULT_COLUMNS ==
  <<"benchmark_name", "query_name", "query_type", "execution_time",
    "run_timestamp", "git_revision", "git_revision_timestamp", "num_cores">>

\* values of --git-revision; "" stands for an option that was not given
GitRevisions == {"", "4e1b", "9c0d"}

\* a results file as csv writes it: one string per line
CsvLine(fields) == Join(fields, ",")

\* what an output directory may hold before the first invocation: nothing,
\* or results somebody filed under a name of the form <label>-results.csv
OutputDirs ==
  {<<>>,
   [name \in {"45.0.0-results.csv"} |->
      <<CsvLine(RESULT_COLUMNS),
        CsvLine(<<"clickbench_partitioned", "q0", "table_creation", "0.5",
                  "t0", "4e1b", "", "8">>)>>]}

\* glob.glob(os.path.join(output_dir, "*-results.csv")), as names
GlobResults(dir) ==
  {name \in DOMAIN dir : EndsWith(name, "-results.csv") /\ ~StartsWith(name, ".")}

\* next(csv.DictReader(f), None).get(column) of a file; None when there is
\* no first row or no such column
FirstRowGet(lines, column) ==
  IF Len(lines) < 2 THEN None
  ELSE LET fieldnames == SplitOn(lines[1], ",")
           row == SplitOn(lines[2], ",")
           at == {k \in 1..Len(fieldnames) : fieldnames[k] = column}
       IN IF at = {} \/ Nth(at, 1) > Len(row) THEN None
          ELSE row[Nth(at, 1)]

\* the files check_existing_results may return; it returns None when there
\* is none
check_existing_results(dir, git_revision) ==
  {name \in GlobResults(dir) :
     git_revision # "" /\ FirstRowGet(dir[name], "git_revision") = git_revision}

\* the results of one query whose output has n Elapsed lines
QueryResults(query, n, timestamp, git_revision) ==
  [i \in 1..n |->
     <<"clickbench_partitioned", "q" \o ToString(query),
       IF i = 1 THEN "table_creation" ELSE "query", "0.5",
       timestamp, git_revision, "", "8">>]

NoFile == <<"no file">>

ResultsFile(dir) == IF "results.csv" \in DOMAIN dir THEN dir["results.csv"] ELSE NoFile

\* one invocation's arguments and environment: elapsed is the number of
\* Elapsed lines the binary prints for a query, failing the query on which
\* it exits with an error (NUM_QUERIES: none). earlier holds the revisions
\* of the earlier invocations that wrote their results, before the
\* results.csv this invocation found, queries the queries it has run
BenchArgs(dir, invocation, earlier) ==
  {[pc |-> "main", output_dir |-> dir, git_revision |-> rev,
    elapsed |-> elapsed, failing |-> failing, invocation |-> invocation,
    timestamp |-> "t" \o ToString(invocation),
    query |-> 0, results |-> <<>>, exit_code |-> -1,
    completed |-> FALSE, earlier |-> earlier, before |-> ResultsFile(dir),
    queries |-> 0] :
     rev \in GitRevisions, elapsed \in {0, 2}, failing \in {3, NUM_QUERIES}}

InitBench ==
  /\ DispatcherNotRunning
  /\ builder = NotRunning
  /\ probe = NotRunning
  /\ \E dir \in OutputDirs : clickbench \in BenchArgs(dir, 1, {})

BenchUnchanged == UNCHANGED <<dispatcher, builder, probe>>

\* main up to the loop over the queries (lines 30-44)
BenchMain ==
  /\ clickbench.pc = "main"
  /\ clickbench' =
       IF check_existing_results(clickbench.output_dir, clickbench.git_revision) # {}
       THEN [clickbench EXCEPT !.pc = "returned", !.exit_code = 0]
       ELSE [clickbench EXCEPT !.pc = "queries"]
  /\ BenchUnchanged

\* one turn of the loop (lines 46-48): run_clickbench_query returns the
\* results, or None after CalledProcessError, and extend(None) raises
BenchQuery ==
  /\ clickbench.pc = "queries"
  /\ clickbench.query < NUM_QUERIES
  /\ clickbench' =
       IF clickbench.query = clickbench.failing
       THEN [clickbench EXCEPT !.pc = "raised", !.exit_code = 1,
                               !.queries = @ + 1]
       ELSE [clickbench EXCEPT
               !.results = @ \o QueryResults(clickbench.query, clickbench.elapsed,
                                             clickbench.timestamp,
                                             clickbench.git_revision),
               !.query = @ + 1,
               !.queries = @ + 1]
  /\ BenchUnchanged

\* the results are appended to results.csv (lines 51-63); results[0] raises
\* when there is no result, after open created the file
BenchWrite ==
  /\ clickbench.pc = "queries"
  /\ clickbench.query = NUM_QUERIES
  /\ \E file_exists \in {"results.csv" \in DOMAIN clickbench.output_dir} :
     \E old \in {IF file_exists THEN clickbench.output_dir["results.csv"] ELSE <<>>} :
     \E new \in {IF clickbench.results = <<>> THEN old
                 ELSE old \o (IF file_exists THEN <<>> ELSE <<CsvLine(RESULT_COLUMNS)>>)
                          \o [k \in 1..Len(clickbench.results) |->
                                CsvLine(clickbench.results[k])]} :
       clickbench' =
         [clickbench EXCEPT
            !.output_dir = [name \in DOMAIN @ \cup {"results.csv"} |->
                              IF name = "results.csv" THEN new ELSE @[name]],
            !.pc = IF clickbench.results = <<>> THEN "raised" ELSE "returned",
            !.exit_code = IF clickbench.results = <<>> THEN 1 ELSE 0,
            !.completed = clickbench.results # <<>>]
  /\ BenchUnchanged

\* the script is run again on the same output directory
BenchAgain ==
  /\ clickbench.pc \in {"returned", "raised"}
  /\ clickbench.invocation < MaxInvocations
  /\ clickbench' \in BenchArgs(clickbench.output_dir, clickbench.invocation + 1,
                               IF clickbench.completed /\ clickbench.git_revision # ""
                               THEN clickbench.earlier \cup {clickbench.git_revision}
                               ELSE clickbench.earlier)
  /\ BenchUnchanged

NextBench ==
  \/ BenchMain
  \/ BenchQuery
  \/ BenchWrite
  \/ BenchAgain

SpecBench == InitBench /\ [][NextBench]_vars

(***************************************************************************)
(* The classification of one comment body and the job descriptor written   *)
(* for it, followed on bodies put together from trigger words, benchmark   *)
(* names, letter case and whitespace.                                      *)
(***************************************************************************)
UpperChar(ch) ==
  IF ch \in LowerLetters THEN CHOOSE u \in UpperLetters : LowerChar(u) = ch ELSE ch

RECURSIVE Upper(_)
Upper(s) ==
  IF Len(s) = 0 THEN ""
  ELSE UpperChar(Char(s, 1)) \o Upper(Slice(s, 2, Len(s)))

\* a trigger word in one of three spellings
Spell(word, case) ==
  CASE case = "upper" -> Upper(word)
    [] case = "capital" -> UpperChar(Char(word, 1)) \o Slice(word, 2, Len(word))
    [] OTHER -> word

TriggerWords ==
  {<<"run", "benchmarks">>, <<"run", "benchmark">>, <<"show", "benchmark", "queue">>}

\* the names that follow the trigger words
BenchNames ==
  {<<>>, <<"tpch">>, <<"sql_planner">>, <<"arrow_reader">>, <<"nosuch">>,
   <<"TPCH">>, <<"tpc-h">>, <<"tpch", "clickbench_1">>,
   <<"take_kernels", "arrow_reader">>, <<"tpch", "nosuch">>}

\* whitespace before and after the text, and between two words
Pads == {<<"", "">>, <<" ", "\n">>, <<"\n\t", " ">>}
Gaps == {" ", "  ", "\n"}
Cases == {"lower", "upper", "capital"}

\* the body made of the words and the names
BodyOf(words, case, names, gap, pad) ==
  pad[1] \o Join([k \in 1..Len(words) |-> Spell(words[k], case)] \o names, gap)
         \o pad[2]

\* process_comment lines 415-424: the intent of a body, given what
\* detect_benchmark returned for it
Intent(body, benches) ==
  IF \E text \in {Lower(Strip(body))} : text = "show benchmark queue"
  THEN <<"QueueRequest", <<>>>>
  ELSE IF benches # NoBenches THEN <<"BenchmarkRequest", benches>>
  ELSE IF \E text \in {Lower(Strip(body))} : StartsWith(text, "run benchmark")
  THEN <<"UnsupportedBenchmarkRequest", Requested(body)>>
  ELSE <<"NoTrigger", <<>>>>

\* the comment process_comment is called with
ProbeComment == Comment(probe.id, probe.login, probe.body)

ProbeCfg == RepoConfig(CommentRepo(probe.id))

InitClassify ==
  /\ DispatcherNotRunning
  /\ builder = NotRunning
  /\ clickbench = NotRunning
  /\ \E words \in TriggerWords, case \in Cases, names \in BenchNames,
        gap \in Gaps, pad \in Pads, id \in {123, 45}, login \in {"alamb", "mallory"} :
       probe = [pc |-> "body", words |-> words, case |-> case, names |-> names,
                gap |-> gap, pad |-> pad, id |-> id, login |-> login,
                body |-> BodyOf(words, case, names, gap, pad),
                plain |-> BodyOf(words, "lower", names, " ", <<"", "">>),
                benches |-> NoBenches, intent |-> <<>>, plain_intent |-> <<>>,
                route |-> "", content |-> "", lines |-> <<>>,
                meta |-> <<>>]

ProbeUnchanged == UNCHANGED <<dispatcher, builder, clickbench>>

\* process_comment from the top to the authorization (lines 400-435), on
\* the body and on the same words in lower case with single spaces
ClassifyBody ==
  /\ probe.pc = "body"
  /\ \E benches \in {detect_benchmark(ProbeCfg, probe.body)} :
     \E plain_benches \in {detect_benchmark(ProbeCfg, probe.plain)} :
       probe' = [probe EXCEPT !.pc = "classified",
                              !.benches = benches,
                              !.intent = Intent(probe.body, benches),
                              !.plain_intent = Intent(probe.plain, plain_benches),
                              !.route = Route(ProbeComment, benches)]
  /\ ProbeUnchanged

\* process_comment lines 437-462 when jobs/ has no file of the comment: the
\* file is written; lines is the file as a shell reads it, line by line
WriteDescriptor ==
  /\ probe.pc = "classified"
  /\ probe.route = "job"
  /\ \E content \in {JobFileContent(ProbeCfg, pr_number_from_url(ProbeComment.issue_url),
                                    ProbeComment, probe.benches)} :
       probe' = [probe EXCEPT !.pc = "written", !.content = content,
                              !.lines = SplitOn(content, "\n")]
  /\ ProbeUnchanged

\* post_queue line 373: parse_job_metadata reads the file back
ReadDescriptor ==
  /\ probe.pc = "written"
  /\ probe' = [probe EXCEPT !.pc = "parsed", !.meta = parse_job_metadata(probe.content)]
  /\ ProbeUnchanged

NextClassify ==
  \/ ClassifyBody
  \/ WriteDescriptor
  \/ ReadDescriptor

SpecClassify == InitClassify /\ [][NextClassify]_vars

(***************************************************************************)
(* The body of the queue reply, followed on directories of job files.      *)
(***************************************************************************)
\* the comments whose job files jobs/ may hold, with author and text
QueuedComments == {123, 12, 45}

QueuedComment(id) ==
  CASE id = 123 -> Comment(id, "alamb", " Run  benchmark tpch\n")
    [] id = 12  -> Comment(id, "Dandandan", "run benchmark sql_planner tpch")
    [] OTHER    -> Comment(id, "alamb", "run benchmarks")

QueuedFileName(id) ==
  job_file_name(RepoConfig(CommentRepo(id)), CommentPr(id), ToString(id))

\* the job file process_comment writes for the comment
QueuedFile(id) ==
  JobFileContent(RepoConfig(CommentRepo(id)), CommentPr(id), QueuedComment(id),
                 detect_benchmark(RepoConfig(CommentRepo(id)), QueuedComment(id).body))

\* files of jobs/ that are no job files: the .done file of a job whose
\* descriptor is gone, the .done file the worker left next to the descriptor
\* of comment 123, and a note
OtherFiles == {"jobs/7_99.sh.done", "jobs/7_123.sh.done", "jobs/notes.txt"}

\* a jobs/ directory: the job files of ids, written in the order mtime gives
\* them, and the other files
JobsDir(ids, mtime, other) ==
  [name \in {QueuedFileName(id) : id \in ids} \cup other |->
     IF name \in other THEN [content |-> "", mtime |-> 0]
     ELSE [content |-> QueuedFile(CHOOSE id \in ids : QueuedFileName(id) = name),
           mtime |-> mtime[CHOOSE id \in ids : QueuedFileName(id) = name]]]

InitQueue ==
  /\ DispatcherNotRunning
  /\ builder = NotRunning
  /\ clickbench = NotRunning
  /\ \E ids \in SUBSET QueuedComments, other \in SUBSET OtherFiles,
        login \in {"alamb", "mallory"} :
     \E mtime \in {f \in [ids -> 1..Cardinality(ids)] :
                     \A a \in ids : \A b \in ids : a # b => f[a] # f[b]} :
       probe = [pc |-> "jobs", dir |-> JobsDir(ids, mtime, other), login |-> login,
                comment_url |-> Comment(45, login, "show benchmark queue").html_url,
                lines |-> <<>>]

\* post_queue lines 362-385: the body of the reply; lines is the body line
\* by line
BuildQueueBody ==
  /\ probe.pc = "jobs"
  /\ \E body \in {QueueBody(probe.dir, probe.login, probe.comment_url)} :
       probe' = [probe EXCEPT !.pc = "body", !.lines = SplitOn(body, "\n")]
  /\ ProbeUnchanged

NextQueue == BuildQueueBody

SpecQueue == InitQueue /\ [][NextQueue]_vars

(***************************************************************************)
(* The invocation lines and the name of a job file, followed on requests   *)
(* put together from a repository, a pull request, a comment and names.    *)
(***************************************************************************)
MaxNames == 2

\* names a request may hold: of the standard set, of a criterion set, of
\* the other repository's criterion set, of no set
ScriptNames == {"tpch", "sql_planner", "arrow_reader", "nosuch"}

NameLists == UNION {[1..n -> ScriptNames] : n \in 0..MaxNames}

NotYet == "not yet"

ProbeRepo == RepoConfig(probe.repo)

InitEmit ==
  /\ DispatcherNotRunning
  /\ builder = NotRunning
  /\ clickbench = NotRunning
  /\ \E repo \in {"apache/datafusion", "apache/arrow-rs"}, pr_number \in {"7", "42"},
        comment_id \in {"12", "999"}, benches \in NameLists :
       probe = [repo |-> repo, pr_number |-> pr_number, comment_id |-> comment_id,
                benches |-> benches, script |-> NotYet, lines |-> <<>>,
                file_name |-> NotYet]

\* get_benchmark_script is called (line 452); lines is its result line by
\* line
RenderScript ==
  /\ probe.script = NotYet
  /\ \E script \in {get_benchmark_script(ProbeRepo, probe.pr_number, probe.benches)} :
       probe' = [probe EXCEPT !.script = script, !.lines = SplitOn(script, "\n")]
  /\ ProbeUnchanged

\* job_file_name is called (line 442)
NameJobFile ==
  /\ probe.file_name = NotYet
  /\ probe' = [probe EXCEPT !.file_name =
                 job_file_name(ProbeRepo, probe.pr_number, probe.comment_id)]
  /\ ProbeUnchanged

NextEmit ==
  \/ RenderScript
  \/ NameJobFile

SpecEmit == InitEmit /\ [][NextEmit]_vars

(***************************************************************************)
(* main up to the loop over the repositories, followed on values of REPO.  *)
(***************************************************************************)
MaxRepos == 3

\* what stands between two colons of REPO
RepoPieces ==
  {"apache/datafusion", "apache/arrow-rs", " apache/arrow-rs ", "apache/nosuch",
   "Apache/DataFusion", ""}

InitConfig ==
  /\ DispatcherNotRunning
  /\ builder = NotRunning
  /\ clickbench = NotRunning
  /\ \E pieces \in UNION {[1..n -> RepoPieces] : n \in 0..MaxRepos}, gh \in BOOLEAN :
       probe = [pc |-> "main", pieces |-> pieces, env_repos |-> Join(pieces, ":"),
                gh |-> gh, configs |-> <<>>, exit_code |-> -1]

\* main lines 502-508: ensure_tool, build_configs and the test of its result
Configure ==
  /\ probe.pc = "main"
  /\ \E cfgs \in {IF probe.gh THEN build_configs(probe.env_repos) ELSE <<>>} :
       probe' = IF ~probe.gh
                THEN [probe EXCEPT !.pc = "no tool", !.exit_code = 1]
                ELSE IF cfgs = <<>>
                THEN [probe EXCEPT !.pc = "no configs", !.exit_code = 1]
                ELSE [probe EXCEPT !.pc = "configured", !.configs = cfgs]
  /\ ProbeUnchanged

NextConfig == Configure

SpecConfig == InitConfig /\ [][NextConfig]_vars

(***************************************************************************)
(* The claims.                                                             *)
(***************************************************************************)
ThreadOf(id) == <<CommentRepo(id), CommentPr(id)>>

\* the positions, in the thread of comment id, of the replies of one kind
\* the dispatcher posted to it
RepliesTo(id, kind) ==
  {k \in 1..Len(issues[ThreadOf(id)].replies) :
     /\ issues[ThreadOf(id)].replies[k].to = id
     /\ issues[ThreadOf(id)].replies[k].kind = kind}

ReplyKinds == {"notice", "supported", "queue"}

\* the job descriptor of comment id
JobFileOf(id) == job_file_name(RepoConfig(CommentRepo(id)), CommentPr(id), ToString(id))

\* the requests for a benchmark, supported or not, of logins outside the
\* allow-list
UnauthorizedRequests ==
  {rq \in Requests :
     rq[1] \notin ALLOWED_USERS /\ StartsWith(Lower(Strip(rq[2])), "run benchmark")}

\* C1: in sequential runs, the worker leaving .done files in between, the
\* job descriptor of a comment is written at most once
C1_DescriptorWrittenAtMostOnce == \A id \in IdSet : written[id] <= 1

\* the second invocation returned from a comment because the .done file of
\* its descriptor, written once, was there
C1_Witness ==
  \E id \in IdSet : written[id] = 1 /\ <<id, "done_exists">> \in handled[2]

\* C2: in sequential runs whose API calls all succeed, a comment gets at most
\* one reply of each category, whatever the number of comments on its pull
\* request
C2_AtMostOneReplyOfEachKind ==
  faults = 0 =>
    \A id \in IdSet : \A kind \in ReplyKinds : Cardinality(RepliesTo(id, kind)) <= 1

\* C3: an invocation that starts right after one that completed, with no
\* failed call and no worker step since that one began, adds no reply, no
\* descriptor and no reaction
C3_SecondRunAddsNothing == clean /\ base # -1 => Effects = base

\* C4: when process_comment finds the job file, or its .done file, it
\* returns: no file of jobs/ changes, nothing is written, no reaction and no
\* reply is posted
C4_ExistingDescriptorLeftAlone ==
  [][\A p \in Procs :
       /\ \/ run[p].pc = "exists" /\ run[p].file_name \in DOMAIN jobs
          \/ run[p].pc = "done_exists" /\ (run[p].file_name \o ".done") \in DOMAIN jobs
       /\ run'[p] # run[p]
       => /\ run'[p] = Return(run[p])
          /\ jobs' = jobs
          /\ written' = written
          /\ reactions' = reactions
          /\ issues' = issues]_vars

\* the second invocation returned from a comment because its descriptor,
\* written and acknowledged once, was there
C4_Witness ==
  \E id \in IdSet :
    /\ <<id, "file_exists">> \in handled[2]
    /\ written[id] = 1
    /\ reactions[id] = 1
    /\ RepliesTo(id, "notice") \cup RepliesTo(id, "supported") = {}

\* C5: a comment of a login outside the allow-list never has a job
\* descriptor written, a job file or a reaction
C5_UnauthorizedNeverSchedules ==
  \A id \in IdSet :
    comments[id].login \notin ALLOWED_USERS =>
      written[id] = 0 /\ reactions[id] = 0 /\ JobFileOf(id) \notin DOMAIN jobs

\* a request for a supported benchmark, of a login outside the allow-list,
\* was answered
C5_Witness ==
  /\ comments[123].login = "mallory"
  /\ comments[123].body = "run benchmark tpch"
  /\ <<123, "replied">> \in handled[1]
  /\ written[123] = 0

\* C6: a request for a benchmark, of a login outside the allow-list, that
\* process_comment returned from has the user notice as a reply, no reply of
\* another kind, no descriptor and no reaction
C6_UnauthorizedGetsNotice ==
  \A p \in Procs : \A h \in handled[p] :
    <<comments[h[1]].login, comments[h[1]].body>> \in UnauthorizedRequests =>
      /\ RepliesTo(h[1], "notice") # {}
      /\ RepliesTo(h[1], "supported") = {}
      /\ RepliesTo(h[1], "queue") = {}
      /\ written[h[1]] = 0
      /\ reactions[h[1]] = 0

C8_GarbageIsNeverFatal ==
  \A p \in Procs : run[p].garbage = "recent" => run[p].pc # "exited"

\* C8: recent comments that are no JSON end the invocation with status 1;
\* existing replies that are no JSON count as no bodies, and the reply is
\* posted
C8_GarbageRecentFatalBodiesEmpty ==
  \A p \in Procs :
    /\ run[p].garbage = "recent" => run[p].pc = "exited" /\ run[p].status = 1
    /\ run[p].garbage = "bodies" =>
         /\ cache[p][CurThread(p)].bodies = <<>>
         /\ run[p].failedAt = 0 => run[p].pc = "post"

\* recent comments of the first repository were no JSON and the invocation
\* ended before the second
C8_Witness ==
  \E p \in Procs :
    /\ run[p].garbage = "recent"
    /\ run[p].pc = "exited"
    /\ run[p].cfg < Len(configs)

\* C9 as the specification has it: of overlapping invocations at most one
\* writes the descriptor of a comment and at most one posts the reaction
C9_ExclusiveCreation ==
  \A id \in IdSet : written[id] <= 1 /\ reactions[id] <= 1

\* C9: an invocation writes the descriptor only when the file was not there
\* at its check, so a file it overwrites was written after that check; and
\* a reaction is posted only after a write
C9_CheckThenWrite ==
  /\ \A p \in Procs :
       run[p].pc = "write" /\ run[p].file_name \in DOMAIN jobs =>
         jobs[run[p].file_name].mtime > run[p].checkedAt
  /\ \A id \in IdSet : reactions[id] <= written[id]

\* two overlapping invocations wrote the descriptor of one comment and both
\* posted the reaction
C9_Witness ==
  \E id \in IdSet : written[id] = 2 /\ reactions[id] = 2

\* C10: when all API calls succeed, a comment has two replies only when the
\* invocation that posted the second had fetched the bodies of the thread
\* before the first was posted: the two overlapped
C10_DuplicateRepliesNeedOverlap ==
  faults = 0 =>
    \A t \in Threads : \A j, k \in 1..Len(issues[t].replies) :
      j < k /\ issues[t].replies[j].to = issues[t].replies[k].to =>
        /\ issues[t].replies[k].seen < issues[t].replies[j].pos
        /\ issues[t].replies[k].by # issues[t].replies[j].by

\* two overlapping invocations both posted the reply to one comment
C10_Witness ==
  /\ faults = 0
  /\ \E t \in Threads : \E j, k \in 1..Len(issues[t].replies) :
       /\ j < k
       /\ issues[t].replies[j].to = issues[t].replies[k].to
       /\ issues[t].replies[j].by # issues[t].replies[k].by

\* the worker threads of the executor that are inside build_commit
Building == {w \in DOMAIN builder.running : builder.running[w] # NoTask}

\* C11: builds run in parallel, each in its own checkout: no two builds are
\* inside build_commit with the same checkout directory at the same time,
\* and at most num_builds builds run at once
C11_OneBuildPerCheckout ==
  /\ \A v \in Building : \A w \in Building :
       v # w => builder.running[v].checkout_dir # builder.running[w].checkout_dir
  /\ Cardinality(Building) <= builder.num_builds

\* C12: an invocation of run_clickbench with the output directory and the
\* --git-revision of an earlier invocation that completed runs no query and
\* leaves results.csv as it found it
C12_RerunRunsNoQuery ==
  clickbench.git_revision \in clickbench.earlier =>
    /\ clickbench.queries = 0
    /\ ResultsFile(clickbench.output_dir) = clickbench.before

\* the benchmarks a descriptor has a line for: the names asked for, or the
\* default suite
Invocations == IF probe.benches = <<>> THEN 1 ELSE Len(probe.benches)

\* C13: a job descriptor is five # header lines, one blank line, then one
\* invocation line per requested benchmark (one for the default suite), and
\* holds no other line that is neither a comment nor blank, whatever
\* whitespace the body that asked for it has
C13_DescriptorLayout ==
  probe.pc \in {"written", "parsed"} =>
    /\ Len(probe.lines) = 7 + Invocations
    /\ \A k \in 1..5 : StartsWith(probe.lines[k], "#")
    /\ probe.lines[6] = ""
    /\ \A k \in 1..Invocations :
         probe.lines[6 + k] =
           (IF probe.benches = <<>>
            THEN get_benchmark_script(ProbeCfg, CommentPr(probe.id), <<>>)
            ELSE BenchLine(ProbeCfg, CommentPr(probe.id), probe.benches[k]))
    /\ probe.lines[7 + Invocations] = ""

\* the body is the trigger words and the names in lower case, one space
\* between two of them and none around them
PlainProbe == probe.case = "lower" /\ probe.gap = " " /\ probe.pad = <<"", "">>

\* the name is in one of the two allow-sets of the comment's repository
Allowed(name) == name \in ProbeCfg.allowed_standard \cup ProbeCfg.allowed_criterion

\* C14: the body "run benchmark X" is a BenchmarkRequest for [X] when X is
\* in an allow-set of the repository, and an UnsupportedBenchmarkRequest for
\* [X] when X is in neither, answered with the list of supported benchmarks
\* when its author is authorized
C14_OneName ==
  (/\ probe.pc # "body" /\ PlainProbe
   /\ probe.words = <<"run", "benchmark">> /\ Len(probe.names) = 1) =>
    IF Allowed(probe.names[1])
    THEN probe.intent = <<"BenchmarkRequest", probe.names>>
    ELSE /\ probe.intent = <<"UnsupportedBenchmarkRequest", probe.names>>
         /\ probe.login \in ALLOWED_USERS => probe.route = "supported"

C14_Witness ==
  /\ probe.pc = "classified" /\ PlainProbe
  /\ probe.body = "run benchmark nosuch" /\ probe.login = "alamb"
  /\ probe.intent = <<"UnsupportedBenchmarkRequest", <<"nosuch">>>>
  /\ probe.route = "supported"

\* C15: the body "run benchmark n1 n2 ..." is a BenchmarkRequest for the
\* names in the order they were written when every name is allowed; when
\* one of them is not, it is an UnsupportedBenchmarkRequest and no job
\* descriptor is written
C15_SeveralNames ==
  /\ (/\ probe.pc # "body" /\ PlainProbe
      /\ probe.words = <<"run", "benchmark">> /\ probe.names # <<>>) =>
       IF \A k \in 1..Len(probe.names) : Allowed(probe.names[k])
       THEN probe.intent = <<"BenchmarkRequest", probe.names>>
       ELSE /\ probe.intent[1] = "UnsupportedBenchmarkRequest"
            /\ probe.route # "job"
  /\ probe.pc \in {"written", "parsed"} => probe.intent[1] = "BenchmarkRequest"

C15_Witness ==
  /\ probe.pc = "classified" /\ PlainProbe
  /\ probe.body = "run benchmark tpch nosuch" /\ probe.id = 123
  /\ probe.intent[1] = "UnsupportedBenchmarkRequest"

\* C16: the intent of a body does not change with the letter case of the
\* trigger words, the whitespace between tokens or the whitespace around
\* the text: it is the intent of the same words in lower case with single
\* spaces
C16_CaseAndWhitespaceIgnored ==
  probe.pc # "body" => probe.intent = probe.plain_intent

\* C17: a body that matches ^\s*run\s+benchmarks\s*$ in any letter case is
\* the request for the default suite, BenchmarkRequest([]), in every
\* repository
C17_DefaultSuite ==
  (probe.pc # "body" /\ probe.words = <<"run", "benchmarks">> /\ probe.names = <<>>)
    => probe.intent = <<"BenchmarkRequest", <<>>>>

C17_Witness ==
  /\ probe.pc = "classified" /\ probe.id = 45
  /\ probe.body = "\n\tRUN\nBENCHMARKS "
  /\ probe.intent = <<"BenchmarkRequest", <<>>>>

\* the requests for the queue
QueueRequests == {rq \in Requests : Lower(Strip(rq[2])) = "show benchmark queue"}

AsksForQueue(id) == <<comments[id].login, comments[id].body>> \in QueueRequests

\* C18: a request for the queue is answered with the queue reply whoever
\* wrote it: process_comment returns from it after posting the queue reply
\* (or after finding a body with the comment's URL), and the comment never
\* gets the notice for unauthorized users, the list of supported
\* benchmarks, a job descriptor or a reaction
C18_QueueForAnyLogin ==
  \A id \in IdSet : AsksForQueue(id) =>
    /\ RepliesTo(id, "notice") = {} /\ RepliesTo(id, "supported") = {}
    /\ written[id] = 0 /\ reactions[id] = 0
    /\ \A p \in Procs :
         /\ \A h \in handled[p] : h[1] = id => h[2] \in {"replied", "already_posted"}
         /\ <<id, "replied">> \in handled[p] => RepliesTo(id, "queue") # {}

C18_Witness ==
  /\ comments[45].login = "mallory" /\ AsksForQueue(45)
  /\ \E p \in Procs : <<45, "replied">> \in handled[p]
  /\ RepliesTo(45, "queue") # {}

\* C19: a reaction is posted on a comment only by the call of
\* process_comment that wrote and closed the comment's job descriptor
\* before, one reaction for one descriptor, and a comment with a reaction
\* has no reply of the dispatcher
C19_ReactionOnlyAfterDescriptor ==
  /\ [][\A id \in IdSet : reactions'[id] # reactions[id] =>
         /\ reactions'[id] = reactions[id] + 1
         /\ \E p \in Procs : /\ run[p].pc = "react"
                              /\ run[p].wrote = id
                              /\ run'[p].pc = "comment"
         /\ jobs' = jobs /\ issues' = issues]_vars
  /\ [](\A id \in IdSet : reactions[id] > 0 =>
         /\ reactions[id] <= written[id]
         /\ \A kind \in ReplyKinds : RepliesTo(id, kind) = {})

C19_Witness ==
  /\ reactions[123] = 1 /\ written[123] = 1
  /\ \E p \in Procs : <<123, "scheduled">> \in handled[p]
  /\ \A kind \in ReplyKinds : RepliesTo(123, kind) = {}

\* the job files of the directory the queue reply was built from
PendingJobs == {name \in DOMAIN probe.dir : EndsWith(name, ".sh")}

\* the lines of the reply that belong to a markdown table
TableLines == {k \in 1..Len(probe.lines) : StartsWith(probe.lines[k], "|")}

\* C20: the queue reply built from a jobs/ directory without job files says
\* "No pending jobs" and has no table; built from a directory with n job
\* files it has a table of a header, a separator and exactly n rows, the
\* k-th row for the job file with k - 1 older job files
C20_QueueTable ==
  probe.pc = "body" =>
    IF PendingJobs = {}
    THEN /\ TableLines = {}
         /\ \E k \in 1..Len(probe.lines) : Contains(probe.lines[k], "No pending jobs")
    ELSE /\ \A k \in 1..Len(probe.lines) : ~Contains(probe.lines[k], "No pending jobs")
         /\ TableLines = 3..(4 + Cardinality(PendingJobs))
         /\ probe.lines[3] = "| Job | User | Benchmarks | Comment |"
         /\ probe.lines[4] = "| --- | --- | --- | --- |"
         /\ \A k \in 1..Cardinality(PendingJobs) :
              \E name \in PendingJobs :
                /\ Cardinality({older \in PendingJobs :
                                  probe.dir[older].mtime < probe.dir[name].mtime}) = k - 1
                /\ StartsWith(probe.lines[4 + k], "| '" \o Basename(name) \o "' | ")

C20_Witness ==
  /\ probe.pc = "body"
  /\ Cardinality(PendingJobs) = 3
  /\ "jobs/7_99.sh.done" \in DOMAIN probe.dir
  /\ probe.dir["jobs/arrow-8-45.sh"].mtime = 1
  /\ probe.dir["jobs/7_123.sh"].mtime = 2
  /\ StartsWith(probe.lines[5], "| 'arrow-8-45.sh' | alamb | default | ")
  /\ StartsWith(probe.lines[7], "| '7_12.sh' | Dandandan | sql_planner tpch | ")

\* the URL of the pull request of the request
ProbePrUrl == "https://github.com/" \o probe.repo \o "/pull/" \o probe.pr_number

\* C21: for a list of names that is not empty get_benchmark_script renders
\* one line per name, in the order of the list: BENCH_NAME="<name>"
\* ./<criterion_cmd> <pr_url> for a name of the criterion allow-set,
\* BENCHMARKS="<name>" ./<std_cmd> <pr_url> for every other name
C21_OneLinePerName ==
  (probe.script # NotYet /\ probe.benches # <<>>) =>
    /\ Len(probe.lines) = Len(probe.benches)
    /\ \A k \in 1..Len(probe.benches) :
         probe.lines[k] =
           IF probe.benches[k] \in ProbeRepo.allowed_criterion
           THEN "BENCH_NAME=\"" \o probe.benches[k] \o "\" ./"
                  \o ProbeRepo.criterion_cmd \o " " \o ProbePrUrl
           ELSE "BENCHMARKS=\"" \o probe.benches[k] \o "\" ./"
                  \o ProbeRepo.std_cmd \o " " \o ProbePrUrl

C21_Witness ==
  /\ probe.repo = "apache/datafusion" /\ probe.pr_number = "42"
  /\ probe.benches = <<"sql_planner", "tpch">>
  /\ probe.lines =
       <<"BENCH_NAME=\"sql_planner\" ./gh_compare_branch_bench.sh https://github.com/apache/datafusion/pull/42",
         "BENCHMARKS=\"tpch\" ./gh_compare_branch.sh https://github.com/apache/datafusion/pull/42">>

\* C22: for the empty list get_benchmark_script renders one line, the
\* standard command and the URL of the pull request, with no BENCHMARKS or
\* BENCH_NAME binding
C22_DefaultLine ==
  (probe.script # NotYet /\ probe.benches = <<>>) =>
    /\ probe.lines = <<"./" \o ProbeRepo.std_cmd \o " " \o ProbePrUrl>>
    /\ ~Contains(probe.script, "BENCHMARKS") /\ ~Contains(probe.script, "BENCH_NAME")

C22_Witness ==
  /\ probe.benches = <<>>
  /\ probe.script = "./gh_compare_arrow.sh https://github.com/apache/arrow-rs/pull/42"

\* C23: job_file_name is jobs/<prefix><pr_number>-<comment_id>.sh in the
\* prefixed scheme of apache/arrow-rs (jobs/arrow-42-999.sh) and
\* jobs/<pr_number>_<comment_id>.sh in the flat scheme of apache/datafusion
\* (jobs/42_999.sh)
C23_JobFileName ==
  probe.file_name # NotYet =>
    /\ probe.file_name =
         IF probe.repo = "apache/arrow-rs"
         THEN "jobs/arrow-" \o probe.pr_number \o "-" \o probe.comment_id \o ".sh"
         ELSE "jobs/" \o probe.pr_number \o "_" \o probe.comment_id \o ".sh"
    /\ (probe.pr_number = "42" /\ probe.comment_id = "999") =>
         probe.file_name = IF probe.repo = "apache/arrow-rs"
                           THEN "jobs/arrow-42-999.sh" ELSE "jobs/42_999.sh"

C23_Witness ==
  /\ probe.repo = "apache/arrow-rs"
  /\ probe.file_name = "jobs/arrow-42-999.sh"

\* the identifiers build_configs has a RepoConfig for
KnownRepos == {"apache/datafusion", "apache/arrow-rs"}

\* the identifiers of REPO that are known, in the order of the list
KnownPieces ==
  SelectSeq([k \in 1..Len(probe.pieces) |-> Strip(probe.pieces[k])],
            LAMBDA r : r \in KnownRepos)

\* C24: build_configs makes one RepoConfig for every known identifier of
\* the colon-separated list, in the order of the list, and passes over the
\* others; with gh installed main exits before the first fetch, with a
\* status that is not zero, exactly when that list of configurations is
\* empty
C24_OneConfigPerKnownRepo ==
  (probe.pc # "main" /\ probe.gh) =>
    /\ probe.pc \in {"configured", "no configs"}
    /\ Len(probe.configs) = Len(KnownPieces)
    /\ \A k \in 1..Len(KnownPieces) : probe.configs[k] = RepoConfig(KnownPieces[k])
    /\ probe.pc = "no configs" <=> KnownPieces = <<>>
    /\ probe.exit_code = (IF KnownPieces = <<>> THEN 1 ELSE -1)

C24_Witness ==
  /\ probe.env_repos = "apache/nosuch: apache/arrow-rs :apache/datafusion"
  /\ probe.pc = "configured"
  /\ Len(probe.configs) = 2
  /\ probe.configs[1].repo = "apache/arrow-rs"
  /\ probe.configs[2].repo = "apache/datafusion"

\* C25: parse_job_metadata of the job descriptor process_comment wrote for
\* a BenchmarkRequest gives back the login of the comment, the names of the
\* request joined by single spaces in their order ("default" for the
\* default suite) and the URL of the comment
C25_MetadataRoundTrip ==
  probe.pc = "parsed" =>
    probe.meta = <<probe.login,
                   IF probe.benches = <<>> THEN "default" ELSE Join(probe.benches, " "),
                   ProbeComment.html_url>>

C25_Witness ==
  /\ probe.pc = "parsed"
  /\ probe.body = "\n\tRun\nBenchmark\ntake_kernels\narrow_reader "
  /\ probe.meta = <<"alamb", "take_kernels arrow_reader",
                    "https://github.com/apache/arrow-rs/pull/8#issuecomment-45">>

\* C26: an invocation starts with an empty cache; the bodies of a pull
\* request, once in the cache, are not fetched again in that invocation
\* (the entry stays, as of the time of its fetch); and when the invocation
\* has posted a reply to a comment, the cached bodies of the pull request
\* hold a body with the URL of that comment, so that already_posted finds
\* it
C26_CachePerRun ==
  [][\A p \in Procs :
       /\ (run[p].pc = "idle" /\ run'[p].pc # "idle") => cache'[p] = <<>>
       /\ run[p].pc # "idle" =>
            \A t \in DOMAIN cache[p] :
              /\ t \in DOMAIN cache'[p]
              /\ cache'[p][t].at = cache[p][t].at
              /\ Len(cache'[p][t].bodies) >= Len(cache[p][t].bodies)
       /\ \A id \in IdSet :
            (<<id, "replied">> \in handled'[p] /\ <<id, "replied">> \notin handled[p]) =>
              /\ ThreadOf(id) \in DOMAIN cache'[p]
              /\ already_posted(cache'[p][ThreadOf(id)].bodies, comments[id].html_url)]_vars

\* a reply the invocation posted itself, found in the cache when a later
\* comment of the same pull request is processed
C26_Witness ==
  \E p \in Procs :
    /\ <<123, "replied">> \in handled[p]
    /\ <<12, "already_posted">> \in handled[p]
    /\ cache[p][ThreadOf(12)].at < issues[ThreadOf(12)].count
    /\ Len(cache[p][ThreadOf(12)].bodies) = 1

\* the comments that are no trigger: neither the queue request, nor the
\* request for the default suite, nor "run benchmark", whitespace and names
ProseRequests ==
  {rq \in Requests :
     \E words \in {Split(Lower(rq[2]))} :
        /\ words # <<"show", "benchmark", "queue">>
        /\ words # <<"run", "benchmarks">>
        /\ ~(Len(words) >= 3 /\ words[1] = "run" /\ words[2] = "benchmark")}

\* C27: a comment that is no trigger, prose that begins with the words of
\* one included, gets no reply, no descriptor and no reaction
C27_ProseHasNoEffect ==
  \A id \in IdSet :
    <<comments[id].login, comments[id].body>> \in ProseRequests =>
      /\ \A kind \in ReplyKinds : RepliesTo(id, kind) = {}
      /\ written[id] = 0
      /\ reactions[id] = 0
      /\ JobFileOf(id) \notin DOMAIN jobs

\* invocation p is inside process_comment for the comment at its index
Examining(p) ==
  /\ run[p].pc \notin {"idle", "fetch", "finished", "exited"}
  /\ run[p].idx \in 1..Len(fetched[p])

\* C28: an invocation goes through the repositories in the order of the
\* configuration, one step at a time; it fetches the comments of a
\* repository once, on entering it; it goes through them in the order
\* fetched, one at a time; and each reply, descriptor and reaction is that
\* of the comment an invocation is examining at that time
C28_SingleSequentialPass ==
  [][/\ \A p \in Procs :
          /\ run'[p].cfg # run[p].cfg =>
                /\ run'[p].cfg = run[p].cfg + 1
                /\ run'[p].pc = "fetch"
                /\ run[p].pc = "idle" \/ run[p].idx = Len(fetched[p]) + 1
          /\ (run'[p].pc = "fetch" /\ run[p].pc # "fetch") => run'[p].cfg = run[p].cfg + 1
          /\ fetched'[p] # fetched[p] =>
                \/ run[p].pc = "fetch" /\ run'[p].cfg = run[p].cfg
                \/ run'[p].pc \in {"fetch", "finished"} /\ fetched'[p] = <<>>
          /\ (run'[p].idx # run[p].idx /\ run'[p].cfg = run[p].cfg) =>
                /\ run'[p].idx = run[p].idx + 1
                /\ run'[p].pc = "comment"
                /\ run[p].pc = "fetch" \/ Examining(p)
     /\ \A id \in IdSet :
          (written'[id] # written[id] \/ reactions'[id] # reactions[id]) =>
             \E p \in Procs : Examining(p) /\ Cur(p).id = id /\ fetched'[p] = fetched[p]
     /\ \A t \in Threads :
          issues'[t].replies # issues[t].replies =>
             \E p \in Procs :
                /\ Examining(p)
                /\ issues'[t].replies =
                      Append(issues[t].replies,
                             issues'[t].replies[Len(issues'[t].replies)])
                /\ issues'[t].replies[Len(issues'[t].replies)].to = Cur(p).id
                /\ issues'[t].replies[Len(issues'[t].replies)].by = p]_vars

\* an invocation that went through the two comments of the first repository,
\* in the order fetched, and is examining the comment of the second
C28_Witness ==
  \E p \in Procs :
    /\ run[p].cfg = 2
    /\ Examining(p)
    /\ Cur(p).id = 45
    /\ written[123] = 1 /\ reactions[123] = 1
    /\ \E h \in handled[p] : h[1] = 12

\* the descriptors that have a .done file next to them
FinishedJobs == {name \in DOMAIN probe.dir : (name \o ".done") \in DOMAIN probe.dir}

\* C29: the queue reply has no row for a descriptor that has a .done file
\* next to it, and no row for a .done file
C29_OnlyPendingListed ==
  probe.pc = "body" =>
    \A name \in FinishedJobs \cup {n \in DOMAIN probe.dir : EndsWith(n, ".done")} :
      \A k \in 1..Len(probe.lines) :
        ~StartsWith(probe.lines[k], "| '" \o Basename(name) \o "' | ")

\* C30: a comment is passed over as already answered only when its pull
\* request has a reply to that very comment; a reply to another comment of
\* the pull request, whose URL begins with the URL of this one, does not
\* count
C30_SkippedOnlyForOwnReply ==
  \A p \in Procs : \A h \in handled[p] :
    h[2] = "already_posted" => \E kind \in ReplyKinds : RepliesTo(h[1], kind) # {}

\* the last invocation is over and the comment was not among those it
\* examined to the end
LastRunMissed(id) ==
  /\ run[MaxRuns].pc \in {"finished", "exited"}
  /\ \A h \in handled[MaxRuns] : h[1] # id

\* C31: with invocations that keep being started and calls that fail at most
\* MaxFaults times, a comment whose job descriptor was written gets the
\* reaction in the end, unless the last invocation did not get to it
C31_WrittenIsAcknowledged ==
  \A id \in IdSet : (written[id] >= 1) ~> (reactions[id] >= 1 \/ LastRunMissed(id))

\* the requests for supported benchmarks, or for the default suite, of a
\* login of the allow-list, with the repository they are valid in
ValidRequests ==
  {x \in {"apache/datafusion", "apache/arrow-rs"} \X Requests :
     /\ x[2][1] \in ALLOWED_USERS
     /\ \E words \in {Split(Lower(x[2][2]))} :
          \/ words = <<"run", "benchmarks">>
          \/ /\ Len(words) >= 3 /\ words[1] = "run" /\ words[2] = "benchmark"
             /\ \A k \in 3..Len(words) :
                  words[k] \in RepoConfig(x[1]).allowed_standard
                               \cup RepoConfig(x[1]).allowed_criterion}

\* C32: when an invocation ended with status 0 and no call has failed, each
\* valid request of the time window has its job descriptor or its .done
\* file, whatever the number of other comments updated in the window
C32_RequestsGetDescriptor ==
  \A p \in Procs :
    (faults = 0 /\ run[p].pc = "finished" /\ run[p].status = 0) =>
      \A id \in IdSet :
        <<CommentRepo(id), <<comments[id].login, comments[id].body>>>> \in ValidRequests =>
          \/ JobFileOf(id) \in DOMAIN jobs
          \/ (JobFileOf(id) \o ".done") \in DOMAIN jobs

\* the lines of the descriptor that bind a name or call a script
BindingLines ==
  {k \in 1..Len(probe.lines) :
     \/ Contains(probe.lines[k], "BENCHMARKS=")
     \/ Contains(probe.lines[k], "BENCH_NAME=")
     \/ Contains(probe.lines[k], "./")}

\* the URL of the pull request of the comment
CommentPrUrl ==
  "https://github.com/" \o CommentRepo(probe.id) \o "/pull/" \o CommentPr(probe.id)

\* C33: each line of a job descriptor that binds BENCHMARKS or BENCH_NAME, or
\* calls a script, is the script and the URL of the pull request, alone or
\* after the binding of one name of the repository's allow-sets, BENCH_NAME
\* for a name of the criterion set only; nothing else of the body is on it
C33_OnlyAllowedNamesBound ==
  probe.pc \in {"written", "parsed"} =>
    \A k \in BindingLines :
      \/ probe.lines[k] = "./" \o ProbeCfg.std_cmd \o " " \o CommentPrUrl
      \/ \E name \in ProbeCfg.allowed_criterion :
           probe.lines[k] = "BENCH_NAME=\"" \o name \o "\" ./"
                              \o ProbeCfg.criterion_cmd \o " " \o CommentPrUrl
      \/ \E name \in ProbeCfg.allowed_standard \cup ProbeCfg.allowed_criterion :
           probe.lines[k] = "BENCHMARKS=\"" \o name \o "\" ./"
                              \o ProbeCfg.std_cmd \o " " \o CommentPrUrl

\* a descriptor for a criterion name and a newline in the body: the text
\* after the newline is a line of the file, the binding is as it should be
C33_Witness ==
  /\ probe.pc = "written" /\ probe.id = 123
  /\ probe.names = <<"sql_planner">> /\ probe.gap = "\n" /\ probe.case = "upper"
  /\ Cardinality(BindingLines) = 1
  /\ \E k \in BindingLines :
       probe.lines[k] = "BENCH_NAME=\"sql_planner\" ./gh_compare_branch_bench.sh "
                          \o "https://github.com/apache/datafusion/pull/7"

\* C34: an invocation of run_clickbench in which the command of one query
\* fails ends with status 0, after going through all the queries, with lines
\* added to results.csv
C34_FailedQuerySkipped ==
  (/\ clickbench.pc \in {"returned", "raised"}
   /\ clickbench.queries >= 1
   /\ clickbench.failing < NUM_QUERIES) =>
    /\ clickbench.exit_code = 0
    /\ clickbench.queries = NUM_QUERIES
    /\ Len(ResultsFile(clickbench.output_dir)) > Len(clickbench.before)

\* the commit has a file datafusion-cli@<commit>@... in builds/
HasBuild(commit) ==
  \E name \in builder.builds_dir : StartsWith(name, "datafusion-cli@" \o commit \o "@")

\* the commits of the time range without such a file, oldest first
Unbuilt == SelectSeq(builder.commits, LAMBDA c : ~HasBuild(c))

\* the commits main has submitted so far, in the order of submission
Submitted == SubSeq(builder.commits_to_build, 1, builder.checkout_index)

BuildEnded == builder.pc \in {"returned", "exited"}

\* C35 as the specification has it: main, once it has the commits of the
\* time range, ends having submitted each commit without a build, and
\* counted each as successful or failed
C35_EveryUnbuiltCommitSubmitted ==
  (BuildEnded /\ builder.primary) =>
    /\ Submitted = Unbuilt
    /\ builder.successful_builds + builder.failed_builds = Len(Unbuilt)

\* C35: main never submits a commit that has a build, nor one commit twice;
\* when the primary checkout is there and a checkout directory is usable it
\* ends with status 0, each commit without a build submitted once, no task
\* left, and successful + failed the number submitted; otherwise it ends
\* with status 1 and submits nothing (nothing either when no commit lacks a
\* build); and it ends
C35_SubmittedOnceWhenCheckoutsExist ==
  /\ [](/\ \A k \in 1..Len(Submitted) :
             /\ ~HasBuild(Submitted[k])
             /\ \A j \in 1..Len(Submitted) : Submitted[j] = Submitted[k] => j = k
        /\ BuildEnded =>
             IF builder.primary /\ Unbuilt # <<>>
                /\ \A i \in 0..(builder.num_builds - 1) : i \in builder.unusable
             THEN builder.exit_code = 1 /\ Submitted = <<>>
             ELSE IF ~builder.primary
             THEN builder.exit_code = 1 /\ Submitted = <<>>
             ELSE /\ builder.exit_code = 0
                  /\ Submitted = Unbuilt
                  /\ builder.queue = <<>> /\ builder.finished = {}
                  /\ \A w \in DOMAIN builder.running : builder.running[w] = NoTask
                  /\ builder.successful_builds + builder.failed_builds = Len(Submitted))
  /\ <>BuildEnded

\* of three commits the oldest has a build; the two others were submitted,
\* one build succeeded and one failed
C35_Witness ==
  /\ builder.pc = "returned"
  /\ HasBuild("a1f0")
  /\ Submitted = <<"b2e1", "c3d2">>
  /\ builder.successful_builds = 1 /\ builder.failed_builds = 1
====
